---------------------------- MODULE Spec2Model ----------------------------
(***************************************************************************)
(* A model of src/app.py: the metadata fetcher get_metadata, the scorer    *)
(* calculate_seo_score, the recommender generate_recommendations, the      *)
(* batch coordinator analyze_bulk_urls and the script runs of the page.    *)
(* get_metadata is modelled as its body, one uncached call at a time: the   *)
(* st.cache_data wrapper of line 48 only replays a value the body returned. *)
(*                                                                         *)
(* Representation of Python values                                         *)
(*   str            a TLA+ string; len(s) is Len(s)                        *)
(*   str or None    a string, None being the reserved string NoneStr       *)
(*   dict (Profile) a record; d.get(k, default) is Get(d, k, default)      *)
(*   None / non-dict argument   the records NoneValue / NotADict           *)
(*   list           a sequence                                             *)
(*   text_content   the page text, represented by its number of            *)
(*                  whitespace-separated words (all the code reads of it   *)
(*                  is its truth value and len(text_content.split()))      *)
(*   readability_score   a float, held in tenths of a point                *)
(*   f"...{x}..."   the tuple of the literal parts and the values          *)
(***************************************************************************)
EXTENDS Integers, Sequences, FiniteSets, TLC

VARIABLES
    metadata,          \* the argument of calculate_seo_score / generate_recommendations
    seo_score,         \* the value calculate_seo_score returned
    recommendations,   \* first list generate_recommendations returned
    priority,          \* second list generate_recommendations returned
    fn_pc,             \* "input" -> "scored" -> "recommended"
    rec_calls,         \* number of generate_recommendations calls made on metadata
    call,              \* the activation of get_metadata: its position and locals
    net,               \* the requests that activation has issued, by kind
    replies,           \* what its requests other than the primary GET came back with
    urls,              \* the argument of analyze_bulk_urls
    futures,           \* the futures it submitted, in submission order
    results,           \* its results list
    bulk_pc,           \* "idle", "running" or "returned"
    analysis_history,  \* st.session_state.analysis_history
    bulk_results,      \* st.session_state.bulk_results
    last_run           \* the latest script run: its mode, whether Clear History was
                       \* pressed, the history it started from, the URLs entered,
                       \* the URLs get_metadata was called with, what get_metadata
                       \* returned in Single URL mode, the warnings shown

fn_vars == <<metadata, seo_score, recommendations, priority, fn_pc, rec_calls>>

gm_vars == <<call, net, replies>>

bulk_vars == <<urls, futures, results, bulk_pc>>

app_vars == <<analysis_history, bulk_results, last_run>>

vars == <<fn_vars, gm_vars, bulk_vars, app_vars>>

\* the variables a step of one part of the program leaves alone
fn_rest == <<gm_vars, bulk_vars, app_vars>>

gm_rest == <<fn_vars, bulk_vars, app_vars>>

bulk_rest == <<fn_vars, gm_vars, app_vars>>

app_rest == <<fn_vars, gm_vars, bulk_vars>>

-----------------------------------------------------------------------------
(* Python values *)

NoneStr == "<None>"
NoneValue == [py_type |-> "NoneType"]
NotADict == [py_type |-> "str"]
EmptyDict == <<>>

\* isinstance(x, dict)
IsDict(x) == "py_type" \notin DOMAIN x

\* truth value of a dict, None or other object: an empty dict and None are false
TruthyObj(x) == x # NoneValue /\ DOMAIN x # {}

\* truth value of a str-or-None
TruthyStr(s) == s # NoneStr /\ s # ""

\* d.get(key, default)
Get(d, key, default) == IF key \in DOMAIN d THEN d[key] ELSE default

Min(a, b) == IF a <= b THEN a ELSE b

\* a text of n characters
RECURSIVE Text(_)
Text(n) ==
    IF n = 0 THEN ""
    ELSE IF n % 2 = 1 THEN "x" \o Text(n - 1)
    ELSE Text(n \div 2) \o Text(n \div 2)

\* a list of n heading texts
Headings(n) == [i \in 1..n |-> "heading"]

-----------------------------------------------------------------------------
(* calculate_seo_score, src/app.py 291-364 *)

max_score == 100

\* len(text_content.split()) if text_content else 0
word_count(md) == Get(md, "text_content", 0)

\* mutant of ScoreTitle: a missing title is penalised instead of adding 0
ScoreTitle_Penalised(md) ==
    IF TruthyStr(Get(md, "title", NoneStr))
    THEN LET title_len == Get(md, "title_length", 0) IN
         IF 30 <= title_len /\ title_len <= 60 THEN 15
         ELSE IF (20 <= title_len /\ title_len < 30) \/ (60 < title_len /\ title_len <= 70) THEN 10
         ELSE IF title_len > 0 THEN 5
         ELSE 0
    ELSE 0 - 5

\* Title (299-309)
ScoreTitle(md) ==
    IF TruthyStr(Get(md, "title", NoneStr))
    THEN LET title_len == Get(md, "title_length", 0) IN
         IF 30 <= title_len /\ title_len <= 60 THEN 15
         ELSE IF (20 <= title_len /\ title_len < 30) \/ (60 < title_len /\ title_len <= 70) THEN 10
         ELSE IF title_len > 0 THEN 5
         ELSE 0
    ELSE 0

\* mutant of ScoreMetaDescription: the lower bound of the best range is strict
ScoreMetaDescription_StrictBound(md) ==
    LET desc_len == Get(md, "meta_description_length", 0) IN
    IF 120 < desc_len /\ desc_len <= 160 THEN 15
    ELSE IF (100 <= desc_len /\ desc_len < 120) \/ (160 < desc_len /\ desc_len <= 180) THEN 10
    ELSE IF desc_len > 0 THEN 5
    ELSE 0

\* Meta Description (311-318)
ScoreMetaDescription(md) ==
    LET desc_len == Get(md, "meta_description_length", 0) IN
    IF 120 <= desc_len /\ desc_len <= 160 THEN 15
    ELSE IF (100 <= desc_len /\ desc_len < 120) \/ (160 < desc_len /\ desc_len <= 180) THEN 10
    ELSE IF desc_len > 0 THEN 5
    ELSE 0

\* mutant of ScoreH1: any page with an h1 earns the 15 points
ScoreH1_AtLeastOne(md) ==
    LET headings == Get(md, "headings", [h1 |-> <<>>, h2 |-> <<>>])
        h1_count == Len(Get(headings, "h1", <<>>))
    IN  IF h1_count >= 1 THEN 15 ELSE 0

\* Headings (320-328)
ScoreH1(md) ==
    LET headings == Get(md, "headings", [h1 |-> <<>>, h2 |-> <<>>])
        h1_count == Len(Get(headings, "h1", <<>>))
    IN  IF h1_count = 1 THEN 15
        ELSE IF h1_count > 1 THEN 5
        ELSE 0

ScoreH2_Ten(md) ==
    LET headings == Get(md, "headings", [h1 |-> <<>>, h2 |-> <<>>]) IN
    IF Len(Get(headings, "h2", <<>>)) > 0 THEN 10 ELSE 0

ScoreH2(md) ==
    LET headings == Get(md, "headings", [h1 |-> <<>>, h2 |-> <<>>]) IN
    IF Len(Get(headings, "h2", <<>>)) > 0 THEN 5 ELSE 0

ScoreHeadings(md) == ScoreH1(md) + ScoreH2(md)

\* mutant of ScoreImages: the ratio is taken of the images without alt text
ScoreImages_WithoutAlt(md) ==
    LET images_total == Get(md, "images_total", 0) IN
    IF images_total > 0
    THEN (10 * Get(md, "images_without_alt", 0)) \div images_total
    ELSE 0

\* Images with Alt (330-335): int(10 * (images_with_alt / images_total)).  The float
\* quotient and product round to the exact floor for all counts below 3000.
ScoreImages(md) ==
    LET images_total == Get(md, "images_total", 0) IN
    IF images_total > 0
    THEN (10 * Get(md, "images_with_alt", 0)) \div images_total
    ELSE 0

ScoreMobile_Five(md) == IF Get(md, "is_mobile_friendly", FALSE) THEN 5 ELSE 0

\* Mobile Friendly (337-339)
ScoreMobile(md) == IF Get(md, "is_mobile_friendly", FALSE) THEN 10 ELSE 0

\* Schema Markup (341-343)
ScoreSchema(md) == IF Get(md, "has_schema", FALSE) THEN 10 ELSE 0

\* Canonical URL (345-347)
ScoreCanonical(md) == IF TruthyStr(Get(md, "canonical_url", NoneStr)) THEN 5 ELSE 0

\* mutant of ScoreInternalLinks: one point per ten links
ScoreInternalLinks_PerTen(md) ==
    LET internal_links == Get(md, "internal_links_count", 0) IN
    IF internal_links > 0 THEN Min(5, internal_links \div 10) ELSE 0

\* Internal Links (349-352)
ScoreInternalLinks(md) ==
    LET internal_links == Get(md, "internal_links_count", 0) IN
    IF internal_links > 0 THEN Min(5, internal_links \div 5) ELSE 0

\* Content Length (354-362)
ScoreContent(md) ==
    IF word_count(md) >= 300 THEN 10
    ELSE IF word_count(md) >= 200 THEN 7
    ELSE IF word_count(md) >= 100 THEN 4
    ELSE 0

\* the running sum `score` just before the return of line 364
RawScore(md) ==
    ScoreTitle(md) + ScoreMetaDescription(md) + ScoreHeadings(md) + ScoreImages(md)
    + ScoreMobile(md) + ScoreSchema(md) + ScoreCanonical(md)
    + ScoreInternalLinks(md) + ScoreContent(md)

calculate_seo_score(md) ==
    IF ~TruthyObj(md) \/ ~IsDict(md) THEN 0
    ELSE Min(RawScore(md), max_score)

-----------------------------------------------------------------------------
(* generate_recommendations, src/app.py 391-599 *)

\* One rule's outcome: what it appends to `recommendations` and to `priority`.
Finding(category, issue, recommendation, impact, label) ==
    <<[rec |-> [category |-> category, issue |-> issue,
                recommendation |-> recommendation, impact |-> impact],
       label |-> label]>>

NoFinding == <<>>

\* Title recommendations (399-425)
RecTitle(md) ==
    IF ~TruthyStr(Get(md, "title", NoneStr))
    THEN Finding("Critical", "Missing Title Tag",
                 <<"Add a descriptive title tag (30-60 characters) that includes your primary keyword.">>,
                 "High", "Critical")
    ELSE LET title_length == Get(md, "title_length", 0) IN
         IF title_length < 30
         THEN Finding("Important", "Title Too Short",
                      <<"Expand your title tag from ", title_length, " to 30-60 characters for better SEO.">>,
                      "Medium", "Important")
         ELSE IF title_length > 60
         THEN Finding("Important", "Title Too Long",
                      <<"Shorten your title tag from ", title_length, " to 30-60 characters to avoid truncation.">>,
                      "Medium", "Important")
         ELSE NoFinding

\* Meta description recommendations (427-445)
RecMetaDescription(md) ==
    IF ~TruthyStr(Get(md, "meta_description", NoneStr))
    THEN Finding("Critical", "Missing Meta Description",
                 <<"Add a compelling meta description (120-160 characters) to improve click-through rates.">>,
                 "High", "Critical")
    ELSE LET desc_length == Get(md, "meta_description_length", 0) IN
         IF desc_length < 120
         THEN Finding("Important", "Meta Description Too Short",
                      <<"Expand your meta description from ", desc_length, " to 120-160 characters.">>,
                      "Medium", "Important")
         ELSE NoFinding

\* H1 recommendations (447-465)
RecH1(md) ==
    LET headings == Get(md, "headings", [h1 |-> <<>>, h2 |-> <<>>])
        h1_count == Len(Get(headings, "h1", <<>>))
    IN  IF h1_count = 0
        THEN Finding("Critical", "No H1 Tag",
                     <<"Add exactly one H1 tag with your primary keyword to improve SEO structure.">>,
                     "High", "Critical")
        ELSE IF h1_count > 1
        THEN Finding("Important", "Multiple H1 Tags",
                     <<"Reduce H1 tags from ", h1_count, " to 1. Use H2-H6 for subheadings.">>,
                     "Medium", "Important")
        ELSE NoFinding

\* Image alt text recommendations (467-479): images_with_alt / images_total < 0.8.
\* The float quotient is below the float 0.8 exactly when 5 * with_alt < 4 * total.
RecImageAlt(md) ==
    LET images_total == Get(md, "images_total", 0)
        images_with_alt == Get(md, "images_with_alt", 0)
    IN  IF images_total > 0 /\ 5 * images_with_alt < 4 * images_total
        THEN Finding("Important", "Missing Alt Text on Images",
                     <<"Add alt text to ", Get(md, "images_without_alt", 0),
                       " images for better accessibility and SEO.">>,
                     "Medium", "Important")
        ELSE NoFinding

\* Mobile friendliness (481-489)
RecMobile(md) ==
    IF ~Get(md, "is_mobile_friendly", FALSE)
    THEN Finding("Critical", "Not Mobile-Friendly",
                 <<"Add a viewport meta tag to make your site mobile-responsive.">>,
                 "High", "Critical")
    ELSE NoFinding

\* HTTPS (491-499)
RecHttps(md) ==
    IF ~Get(md, "is_https", FALSE)
    THEN Finding("Critical", "Not Using HTTPS",
                 <<"Migrate to HTTPS to improve security and SEO rankings.">>,
                 "High", "Critical")
    ELSE NoFinding

\* Schema markup (501-509)
RecSchema(md) ==
    IF ~Get(md, "has_schema", FALSE)
    THEN Finding("Recommended", "No Schema Markup",
                 <<"Add structured data (JSON-LD) to help search engines understand your content.">>,
                 "Low", "Recommended")
    ELSE NoFinding

\* Canonical URL (511-519)
RecCanonical(md) ==
    IF ~TruthyStr(Get(md, "canonical_url", NoneStr))
    THEN Finding("Recommended", "No Canonical URL",
                 <<"Add a canonical URL to prevent duplicate content issues.">>,
                 "Low", "Recommended")
    ELSE NoFinding

\* mutant of RecContent: the finding is filed under the wrong priority label
RecContent_Mislabelled(md) ==
    IF word_count(md) < 300
    THEN Finding("Important", "Low Content Length",
                 <<"Increase content from ", word_count(md), " to at least 300 words for better SEO.">>,
                 "Medium", "Recommended")
    ELSE NoFinding

\* mutant of RecContent: the rule is never applied
RecContent_Skipped(md) == NoFinding

\* Content length (521-531)
RecContent(md) ==
    IF word_count(md) < 300
    THEN Finding("Important", "Low Content Length",
                 <<"Increase content from ", word_count(md), " to at least 300 words for better SEO.">>,
                 "Medium", "Important")
    ELSE NoFinding

\* Robots.txt (533-541)
RecRobots(md) ==
    IF ~Get(md, "robots_txt_exists", FALSE)
    THEN Finding("Recommended", "No robots.txt File",
                 <<"Create a robots.txt file to guide search engine crawlers.">>,
                 "Low", "Recommended")
    ELSE NoFinding

\* Sitemap (543-551)
RecSitemap(md) ==
    IF ~Get(md, "sitemap_exists", FALSE)
    THEN Finding("Recommended", "No Sitemap.xml",
                 <<"Create a sitemap.xml file to help search engines index your pages.">>,
                 "Low", "Recommended")
    ELSE NoFinding

\* mutant of RecBrokenLinks: the ratio 0.1 itself already triggers the finding
RecBrokenLinks_Inclusive(md) ==
    LET checked_links == Get(md, "checked_links", 0)
        broken_links == Get(md, "broken_links", 0)
    IN  IF checked_links > 0 /\ 10 * broken_links >= checked_links
        THEN Finding("Important", "Broken Links Detected",
                     <<"Fix ", broken_links, " broken links found in sample check.">>,
                     "Medium", "Important")
        ELSE NoFinding

\* Broken links (553-565): broken_links / checked_links > 0.1.  The float quotient
\* is above the float 0.1 exactly when 10 * broken > checked.
RecBrokenLinks(md) ==
    LET checked_links == Get(md, "checked_links", 0)
        broken_links == Get(md, "broken_links", 0)
    IN  IF checked_links > 0 /\ 10 * broken_links > checked_links
        THEN Finding("Important", "Broken Links Detected",
                     <<"Fix ", broken_links, " broken links found in sample check.">>,
                     "Medium", "Important")
        ELSE NoFinding

\* Large images (567-576)
RecLargeImages(md) ==
    LET large_images == Get(md, "large_images", 0) IN
    IF large_images > 0
    THEN Finding("Recommended", "Large Images Detected",
                 <<"Optimize ", large_images, " large images (>500KB) to improve page speed.">>,
                 "Low", "Recommended")
    ELSE NoFinding

\* Open Graph tags (578-586): an empty dict is false
RecOpenGraph(md) ==
    IF Get(md, "og_tags", {}) = {}
    THEN Finding("Recommended", "No Open Graph Tags",
                 <<"Add Open Graph tags to improve social media sharing appearance.">>,
                 "Low", "Recommended")
    ELSE NoFinding

\* Readability (588-597): 0 < readability_score < 30, the score held in tenths;
\* {readability_score:.1f} prints the tenths.
RecReadability(md) ==
    LET readability_score == Get(md, "readability_score", 0) IN
    IF readability_score > 0 /\ readability_score < 300
    THEN Finding("Recommended", "Low Readability Score",
                 <<"Improve content readability (current: ", readability_score,
                   " tenths). Use simpler language and shorter sentences.">>,
                 "Low", "Recommended")
    ELSE NoFinding

\* the appends of lines 399-597, in program order
RuleOutcomes(md) ==
    RecTitle(md) \o RecMetaDescription(md) \o RecH1(md) \o RecImageAlt(md)
    \o RecMobile(md) \o RecHttps(md) \o RecSchema(md) \o RecCanonical(md)
    \o RecContent(md) \o RecRobots(md) \o RecSitemap(md) \o RecBrokenLinks(md)
    \o RecLargeImages(md) \o RecOpenGraph(md) \o RecReadability(md)

generate_recommendations_ScoreGated(md, score) ==
    IF md = NoneValue \/ ~IsDict(md) \/ score >= 70 THEN <<<<>>, <<>>>>
    ELSE LET out == RuleOutcomes(md) IN
         <<[i \in 1..Len(out) |-> out[i].rec], [i \in 1..Len(out) |-> out[i].label]>>

\* returns <<recommendations, priority>>; seo_score is never read
generate_recommendations(md, score) ==
    IF md = NoneValue \/ ~IsDict(md) THEN <<<<>>, <<>>>>
    ELSE LET out == RuleOutcomes(md) IN
         <<[i \in 1..Len(out) |-> out[i].rec], [i \in 1..Len(out) |-> out[i].label]>>

\* mutant of MetadataAfterRecommendations: the reported large images are reset
MetadataAfterRecommendations_Reset(md) ==
    IF IsDict(md) /\ "large_images" \in DOMAIN md THEN [md EXCEPT !.large_images = 0] ELSE md

\* what the call leaves in the caller's dict: no statement of 391-599 assigns to it
MetadataAfterRecommendations(md) == md

-----------------------------------------------------------------------------
(* Profiles: the dict get_metadata returns (src/app.py 244-279), restricted to *)
(* the keys the scorer and the recommender read.                             *)

PageUrl(scheme) == [scheme |-> scheme, netloc |-> "example.com"]

\* the Profile of an empty page served over http with no robots.txt and no sitemap
EmptyProfile ==
    [url |-> PageUrl("http"),
     title |-> NoneStr, title_length |-> 0,
     meta_description |-> "", meta_description_length |-> 0,
     og_tags |-> {},
     headings |-> [h1 |-> <<>>, h2 |-> <<>>, h3 |-> <<>>],
     images_total |-> 0, images_with_alt |-> 0, images_without_alt |-> 0,
     large_images |-> 0,
     internal_links_count |-> 0, external_links_count |-> 0,
     broken_links |-> 0, checked_links |-> 0,
     has_schema |-> FALSE,
     canonical_url |-> NoneStr,
     robots_txt_exists |-> FALSE,
     sitemap_exists |-> FALSE,
     is_mobile_friendly |-> FALSE,
     is_https |-> FALSE,
     readability_score |-> 0,
     text_content |-> 0]

\* "title": title_tag.text.strip() if title_tag else None; "title_length" is its len (246-247)
WithTitle(p, t) ==
    [p EXCEPT !.title = t, !.title_length = IF t = NoneStr THEN 0 ELSE Len(t)]

\* "meta_description" and its len (248-249)
WithDescription(p, d) ==
    [p EXCEPT !.meta_description = d, !.meta_description_length = Len(d)]

WithH1(p, n) == [p EXCEPT !.headings.h1 = Headings(n)]

WithH2(p, n) == [p EXCEPT !.headings.h2 = Headings(n)]

\* images_without_alt = len(images) - images_with_alt (100, 254-256)
WithImages(p, total, with_alt) ==
    [p EXCEPT !.images_total = total, !.images_with_alt = with_alt,
              !.images_without_alt = total - with_alt]

\* is_https = urlparse(url).scheme == 'https' (169)
WithHttps(p, https) ==
    [p EXCEPT !.url = PageUrl(IF https THEN "https" ELSE "http"), !.is_https = https]

WithLinkCheck(p, checked, broken) ==
    [p EXCEPT !.checked_links = checked, !.broken_links = broken]

-----------------------------------------------------------------------------
(* get_metadata, src/app.py 49-289 *)

MaxPageImages == 2
MaxPageLinks == 2
MaxClock == 2
MaxMetaTags == 2

\* first 10 unique links are probed (223)
SampleSize == 10

CanonicalHref == "https://example.com/page"

Urls == {PageUrl("http"), PageUrl("https")}

\* what a request comes back with: an exception or a response
Raised(kind) == [kind |-> kind, status |-> 0, content_length |-> 0 - 1]

Response(status, content_length) ==
    [kind |-> "response", status |-> status, content_length |-> content_length]

NoResponse == Raised("none")

\* the primary GET (56): a timeout, another request error, or a final status
GetOutcomes ==
    {Raised("Timeout"), Raised("ConnectionError")}
    \cup {Response(st, 0 - 1) : st \in {200, 404, 500}}

\* a HEAD for an image (182): an exception, or a response whose Content-Length
\* header is absent (-1) or gives the size in bytes
ImageHeadOutcomes ==
    {Raised("ConnectionError")} \cup {Response(200, n) : n \in {0 - 1, 512000, 512001}}

\* the robots.txt GET (198), the sitemap HEAD (209) and a link HEAD (227)
ProbeOutcomes ==
    {Raised("Timeout")} \cup {Response(st, 0 - 1) : st \in {200, 404}}

\* the length of robots_response.text when the robots.txt GET answers 200
RobotsTextLength == 501

\* how long the primary GET takes, and how long any other request may take
GetDurations == {1}

ProbeDurations == {0, 1}

raise_for_status_Never(response) == FALSE

\* response.raise_for_status() raises HTTPError, a RequestException (57)
raise_for_status(response) == response.status >= 400

\* a resolved href: urljoin(base_url, href) (114)
Link(scheme, netloc, path) == [scheme |-> scheme, netloc |-> netloc, path |-> path]

\* an <img>: its alt attribute (None when missing) and img.get('src', '')
ImageKinds ==
    {[alt |-> "logo", src |-> "/a.png"], [alt |-> NoneStr, src |-> "/a.png"],
     [alt |-> "", src |-> "/a.png"], [alt |-> "logo", src |-> ""]}

ImageLists == UNION {[1..n -> ImageKinds] : n \in 0..MaxPageImages}

\* the hrefs of a page: the same page under both schemes, the same host on
\* another port, and another site
LinkKinds ==
    {Link("https", "example.com", 1), Link("http", "example.com", 1),
     Link("https", "example.com:8080", 1), Link("https", "other.test", 1)}

\* short lists with repetitions, and one list of more links than are probed
PageLinks ==
    UNION {[1..n -> LinkKinds] : n \in 0..MaxPageLinks}
    \cup {[i \in 1..(SampleSize + 1) |->
              Link("https", IF i = 1 THEN "other.test" ELSE "example.com", i)]}

\* a <meta>: its name, property and content attributes (None when missing)
Meta(name, property, content) == [name |-> name, property |-> property, content |-> content]

\* meta.get(attr, '') (71-72, 85-87)
MetaGet(meta, attr) == IF meta[attr] = NoneStr THEN "" ELSE meta[attr]

\* str.lower() on the attribute values that occur
lower(t) ==
    CASE t \in {"Description", "DESCRIPTION"} -> "description"
      [] t = "Keywords" -> "keywords"
      [] t = "ROBOTS" -> "robots"
      [] OTHER -> t

\* property_attr.startswith('og:') (86) on the attribute values that occur
StartsWithOg(t) == t \in {"og:title", "og:description"}

\* the <meta> elements of a page: the same key in different cases, with and
\* without content, given by name or by property
MetaKinds ==
    {Meta("description", NoneStr, "first"),
     Meta("Description", NoneStr, "second"),
     Meta("description", NoneStr, ""),
     Meta("DESCRIPTION", "og:description", NoneStr),
     Meta(NoneStr, "description", "by property"),
     Meta("", "og:title", "Home"),
     Meta("Keywords", NoneStr, "seo, audit"),
     Meta("ROBOTS", NoneStr, "noindex")}

MetaLists == UNION {[1..n -> MetaKinds] : n \in 0..MaxMetaTags}

\* the key of line 71: name.lower() or property.lower()
meta_key(meta) ==
    IF lower(MetaGet(meta, "name")) # ""
    THEN lower(MetaGet(meta, "name"))
    ELSE lower(MetaGet(meta, "property"))

\* meta_info[name] = content
Put(d, key, value) == [k \in DOMAIN d \cup {key} |-> IF k = key THEN value ELSE d[k]]

RECURSIVE meta_info_FirstWins(_)
meta_info_FirstWins(meta_tags) ==
    IF meta_tags = <<>> THEN EmptyDict
    ELSE LET d == meta_info_FirstWins(Tail(meta_tags))
             meta == Head(meta_tags)
         IN IF meta_key(meta) # "" /\ MetaGet(meta, "content") # ""
            THEN Put(d, meta_key(meta), MetaGet(meta, "content"))
            ELSE d

\* the loop of lines 66-76 over the <meta> elements in document order
RECURSIVE meta_info(_)
meta_info(meta_tags) ==
    IF meta_tags = <<>> THEN EmptyDict
    ELSE LET d == meta_info(SubSeq(meta_tags, 1, Len(meta_tags) - 1))
             meta == meta_tags[Len(meta_tags)]
         IN IF meta_key(meta) # "" /\ MetaGet(meta, "content") # ""
            THEN Put(d, meta_key(meta), MetaGet(meta, "content"))
            ELSE d

\* the keys of the og_tags dict of lines 79-89
og_tags(meta_tags) ==
    {MetaGet(meta_tags[i], "property") : i \in {j \in 1..Len(meta_tags) :
                                                StartsWithOg(MetaGet(meta_tags[j], "property"))}}

\* what lines 59-169 extract from the response body
BlankPage ==
    [title |-> NoneStr, meta_tags |-> <<>>,
     h1 |-> <<>>, h2 |-> <<>>, h3 |-> <<>>,
     images |-> <<>>, links |-> <<>>,
     schema_scripts |-> 0, canonical_url |-> NoneStr, viewport |-> FALSE,
     text_content |-> 0, flesch_reading_ease |-> 0]

RichPage ==
    [title |-> Text(45),
     meta_tags |-> <<Meta("description", NoneStr, Text(140)), Meta(NoneStr, "og:title", "Home")>>,
     h1 |-> Headings(1), h2 |-> Headings(1), h3 |-> <<>>,
     images |-> <<>>, links |-> <<>>,
     schema_scripts |-> 1, canonical_url |-> CanonicalHref, viewport |-> TRUE,
     text_content |-> 400, flesch_reading_ease |-> 600]

\* every image list on a page without links, every link list on a page with one
\* image, both at once for the lists of at most one element, and every list of
\* <meta> elements on a page without anything else
Pages ==
    {[tpl EXCEPT !.images = imgs] : tpl \in {BlankPage, RichPage}, imgs \in ImageLists}
    \cup {[RichPage EXCEPT !.images = <<[alt |-> "logo", src |-> "/a.png"]>>, !.links = ls] :
             ls \in PageLinks}
    \cup {[BlankPage EXCEPT !.images = imgs, !.links = ls] :
             imgs \in {l \in ImageLists : Len(l) <= 1}, ls \in {l \in PageLinks : Len(l) <= 1}}
    \cup {[BlankPage EXCEPT !.meta_tags = ms] : ms \in MetaLists}

NoRequests == [get |-> 0, image_head |-> 0, robots_get |-> 0, sitemap_head |-> 0, link_head |-> 0]

\* what the auxiliary requests of a call came back with
NoReplies ==
    [get_took |-> 0, image_raised |-> 0, image_over_500kb |-> 0,
     robots |-> "none", sitemap |-> "none",
     link_below_400 |-> 0, link_from_400 |-> 0, link_raised |-> 0]

\* how a request ended: an exception, a status from 400, or a status below 400
ReplyClass(r) ==
    IF r.kind # "response" THEN "raised"
    ELSE IF r.status >= 400 THEN "from_400" ELSE "below_400"

NoResult == [py_type |-> "pending"]

Idle ==
    [pc |-> "idle", url |-> PageUrl("http"), response |-> NoResponse, page |-> BlankPage,
     now |-> 0, start_time |-> 0,
     img_i |-> 1, large_images |-> 0,
     robots_txt_exists |-> FALSE, robots_txt_content |-> NoneStr, sitemap_exists |-> FALSE,
     link_i |-> 1, broken_links |-> 0, checked_links |-> 0,
     handler |-> "none", result |-> NoResult]

ToSet(s) == {s[i] : i \in 1..Len(s)}

internal_links_SameScheme(page, url) ==
    SelectSeq(page.links, LAMBDA l : l.netloc = url.netloc /\ l.scheme = url.scheme)

\* urlparse(absolute_url).netloc == urlparse(url).netloc (115)
internal_links(page, url) == SelectSeq(page.links, LAMBDA l : l.netloc = url.netloc)

external_links(page, url) == SelectSeq(page.links, LAMBDA l : l.netloc # url.netloc)

sample_links_NoDedup(page, url) == Min(SampleSize, Len(page.links))

\* sample_links = list(set(internal_links + external_links))[:10] (223): its length
sample_links(page, url) ==
    Min(SampleSize, Cardinality(ToSet(internal_links(page, url) \o external_links(page, url))))

unique_count_WithRepeats(links) == Len(links)

\* len(set(internal_links)), len(set(external_links)) (258-259)
unique_count(links) == Cardinality(ToSet(links))

images_with_alt_Present(images) == Cardinality({i \in 1..Len(images) : images[i].alt # NoneStr})

\* sum(1 for img in images if ... img.get('alt')) (99)
images_with_alt(images) == Cardinality({i \in 1..Len(images) : TruthyStr(images[i].alt)})

\* the dict of lines 244-279
Profile(c) ==
    [url |-> c.url,
     title |-> c.page.title,
     title_length |-> IF c.page.title = NoneStr THEN 0 ELSE Len(c.page.title),
     meta_description |-> Get(meta_info(c.page.meta_tags), "description", ""),
     meta_description_length |-> Len(Get(meta_info(c.page.meta_tags), "description", "")),
     meta_keywords |-> Get(meta_info(c.page.meta_tags), "keywords", ""),
     og_tags |-> og_tags(c.page.meta_tags),
     headings |-> [h1 |-> c.page.h1, h2 |-> c.page.h2, h3 |-> c.page.h3],
     images_total |-> Len(c.page.images),
     images_with_alt |-> images_with_alt(c.page.images),
     images_without_alt |-> Len(c.page.images) - images_with_alt(c.page.images),
     large_images |-> c.large_images,
     internal_links_count |-> unique_count(internal_links(c.page, c.url)),
     external_links_count |-> unique_count(external_links(c.page, c.url)),
     broken_links |-> c.broken_links,
     checked_links |-> c.checked_links,
     has_schema |-> c.page.schema_scripts > 0,
     canonical_url |-> c.page.canonical_url,
     robots_meta |-> Get(meta_info(c.page.meta_tags), "robots", ""),
     robots_txt_exists |-> c.robots_txt_exists,
     robots_txt_content |-> c.robots_txt_content,
     sitemap_exists |-> c.sitemap_exists,
     is_mobile_friendly |-> c.page.viewport,
     is_https |-> c.url.scheme = "https",
     readability_score |-> c.page.flesch_reading_ease,
     text_content |-> c.page.text_content,
     response_time |-> c.now - c.start_time,
     status_code |-> c.response.status]

\* return None from one of the except clauses of 281-289
ReturnNone(c, handler) == [c EXCEPT !.pc = "done", !.handler = handler, !.result = NoneValue]

\* the time after a request that takes d
Later(c, d) == [c EXCEPT !.now = @ + d]

\* a request other than the primary GET takes any of ProbeDurations, the clock
\* of the model stopping at MaxClock
ProbeTakes(c) == {d \in ProbeDurations : c.now + d <= MaxClock}

image_probe_Raises(c, r) ==
    IF r.kind # "response" THEN ReturnNone(c, "RequestException")
    ELSE [c EXCEPT !.large_images =
                      IF r.content_length >= 0 /\ r.content_length > 500 * 1024
                      THEN @ + 1 ELSE @]

\* the try block of 180-190 around the HEAD of an image
image_probe(c, r) ==
    IF r.kind = "response" /\ r.content_length >= 0 /\ r.content_length > 500 * 1024
    THEN [c EXCEPT !.large_images = @ + 1]
    ELSE c

\* the try block of 197-203 around the robots.txt GET
robots_probe(c, r) ==
    IF r.kind = "response" /\ r.status = 200
    THEN [c EXCEPT !.robots_txt_exists = TRUE,
                   !.robots_txt_content = Text(Min(500, RobotsTextLength))]
    ELSE c

\* the try block of 208-213 around the sitemap HEAD
sitemap_probe(c, r) ==
    IF r.kind = "response" /\ r.status = 200
    THEN [c EXCEPT !.sitemap_exists = TRUE]
    ELSE c

link_probe_FailureNotCounted(c, r) ==
    [c EXCEPT !.checked_links = @ + 1,
              !.broken_links = IF r.kind = "response" /\ r.status >= 400 THEN @ + 1 ELSE @]

link_probe_BrokenFrom500(c, r) ==
    [c EXCEPT !.checked_links = @ + 1,
              !.broken_links = IF r.kind # "response" \/ r.status >= 500 THEN @ + 1 ELSE @]

\* the try block of 225-231 around the HEAD of a sampled link
link_probe(c, r) ==
    [c EXCEPT !.checked_links = @ + 1,
              !.broken_links = IF r.kind # "response" \/ r.status >= 400 THEN @ + 1 ELSE @]

\* get_metadata(url) is entered
GetMetadata(u) ==
    /\ call.pc \in {"idle", "done"}
    /\ call' = [Idle EXCEPT !.pc = "get", !.url = u]
    /\ net' = NoRequests
    /\ replies' = NoReplies
    /\ UNCHANGED gm_rest

\* start_time (55); requests.get and raise_for_status (56-57) fail: except
\* clauses 281-286
PrimaryGetFails ==
    /\ call.pc = "get"
    /\ \E r \in GetOutcomes, d \in GetDurations :
          /\ r.kind # "response" \/ raise_for_status(r)
          /\ call' = ReturnNone(Later([call EXCEPT !.response = r, !.start_time = call.now], d),
                                IF r.kind = "Timeout" THEN "Timeout" ELSE "RequestException")
          /\ replies' = [replies EXCEPT !.get_took = d]
    /\ net' = [net EXCEPT !.get = 1]
    /\ UNCHANGED gm_rest

\* start_time (55); requests.get returns and raise_for_status passes (56-57)
PrimaryGetSucceeds ==
    /\ call.pc = "get"
    /\ \E r \in GetOutcomes, d \in GetDurations, body \in Pages :
          /\ r.kind = "response" /\ ~raise_for_status(r)
          /\ call' = Later([call EXCEPT !.pc = "parse", !.response = r, !.page = body,
                                        !.start_time = call.now], d)
          /\ replies' = [replies EXCEPT !.get_took = d]
    /\ net' = [net EXCEPT !.get = 1]
    /\ UNCHANGED gm_rest

\* BeautifulSoup and the extraction of 59-169
Parse ==
    /\ call.pc = "parse"
    /\ call' = [call EXCEPT !.pc = "images", !.img_i = 1, !.large_images = 0]
    /\ UNCHANGED <<net, replies, gm_rest>>

\* one turn of the image loop (174-191): no request for an image without src
ImageProbe ==
    /\ call.pc = "images"
    /\ call.img_i <= Len(call.page.images)
    /\ IF TruthyStr(call.page.images[call.img_i].src)
       THEN \E r \in ImageHeadOutcomes, d \in ProbeTakes(call) :
               /\ call' = image_probe(Later([call EXCEPT !.img_i = @ + 1], d), r)
               /\ net' = [net EXCEPT !.image_head = @ + 1]
               /\ replies' =
                     [replies EXCEPT
                         !.image_raised = IF r.kind # "response" THEN @ + 1 ELSE @,
                         !.image_over_500kb =
                             IF r.kind = "response" /\ r.content_length > 512000
                             THEN @ + 1 ELSE @]
       ELSE /\ call' = [call EXCEPT !.img_i = @ + 1]
            /\ UNCHANGED <<net, replies>>
    /\ UNCHANGED gm_rest

\* the robots.txt check (193-203), once the image loop is over
RobotsProbe ==
    /\ call.pc = "images"
    /\ call.img_i > Len(call.page.images)
    /\ \E r \in ProbeOutcomes, d \in ProbeTakes(call) :
          /\ call' = robots_probe(Later([call EXCEPT !.pc = "sitemap",
                                                     !.robots_txt_exists = FALSE,
                                                     !.robots_txt_content = NoneStr], d), r)
          /\ replies' = [replies EXCEPT !.robots = ReplyClass(r)]
    /\ net' = [net EXCEPT !.robots_get = @ + 1]
    /\ UNCHANGED gm_rest

\* the sitemap detection (205-213) and the start of the link check (220-223)
SitemapProbe ==
    /\ call.pc = "sitemap"
    /\ \E r \in ProbeOutcomes, d \in ProbeTakes(call) :
          /\ call' = [sitemap_probe(Later([call EXCEPT !.sitemap_exists = FALSE], d), r)
                         EXCEPT !.pc = "links", !.link_i = 1,
                                !.broken_links = 0, !.checked_links = 0]
          /\ replies' = [replies EXCEPT !.sitemap = ReplyClass(r)]
    /\ net' = [net EXCEPT !.sitemap_head = @ + 1]
    /\ UNCHANGED gm_rest

\* one turn of the broken links loop (224-231)
LinkProbe ==
    /\ call.pc = "links"
    /\ call.link_i <= sample_links(call.page, call.url)
    /\ \E r \in ProbeOutcomes, d \in ProbeTakes(call) :
          /\ call' = link_probe(Later([call EXCEPT !.link_i = @ + 1], d), r)
          /\ replies' =
                [replies EXCEPT
                    !.link_below_400 = IF ReplyClass(r) = "below_400" THEN @ + 1 ELSE @,
                    !.link_from_400 = IF ReplyClass(r) = "from_400" THEN @ + 1 ELSE @,
                    !.link_raised = IF ReplyClass(r) = "raised" THEN @ + 1 ELSE @]
    /\ net' = [net EXCEPT !.link_head = @ + 1]
    /\ UNCHANGED gm_rest

\* readability, end_time and the return of the dict (233-279), once the link
\* loop is over
ReturnProfile ==
    /\ call.pc = "links"
    /\ call.link_i > sample_links(call.page, call.url)
    /\ call' = [call EXCEPT !.pc = "done", !.result = Profile(call)]
    /\ UNCHANGED <<net, replies, gm_rest>>

\* a statement after the primary GET raises outside the inner try blocks: 287-289
RaiseUnexpected ==
    /\ call.pc \in {"parse", "images", "sitemap", "links"}
    /\ call' = ReturnNone(call, "Exception")
    /\ UNCHANGED <<net, replies, gm_rest>>

NoRun ==
    [mode |-> "none", cleared |-> FALSE, history_before |-> <<>>,
     entered |-> <<>>, calls |-> <<>>, metadata |-> [py_type |-> "NoneType"],
     warnings |-> <<>>]

\* session state as lines 35-38 leave it, before any script run
AppIdle ==
    /\ analysis_history = <<>>
    /\ bulk_results = <<>>
    /\ last_run = NoRun

BulkIdle ==
    /\ urls = <<>>
    /\ futures = <<>>
    /\ results = <<>>
    /\ bulk_pc = "idle"

GmInit ==
    /\ call = Idle
    /\ net = NoRequests
    /\ replies = NoReplies

FnIdle ==
    /\ metadata = NoneValue
    /\ seo_score = 0 - 1
    /\ recommendations = <<>>
    /\ priority = <<>>
    /\ fn_pc = "input"
    /\ rec_calls = 0

Init ==
    /\ GmInit
    /\ FnIdle
    /\ BulkIdle
    /\ AppIdle

Next ==
    \/ \E u \in Urls : GetMetadata(u)
    \/ PrimaryGetFails
    \/ PrimaryGetSucceeds
    \/ Parse
    \/ ImageProbe
    \/ RobotsProbe
    \/ SitemapProbe
    \/ LinkProbe
    \/ ReturnProfile
    \/ RaiseUnexpected

Spec == Init /\ [][Next]_vars

-----------------------------------------------------------------------------
(* analyze_bulk_urls, src/app.py 601-625 *)

MaxBatch == 2
MaxUrls == 6

max_workers_Unbounded == Len(urls) + 1

\* ThreadPoolExecutor(max_workers=5) (604)
max_workers == 5

\* the addresses of a batch: a site that answers, one that times out, and one
\* for which the task raises
BulkUrls ==
    {PageUrl("https"), [scheme |-> "https", netloc |-> "slow.test"],
     [scheme |-> "https", netloc |-> "raises.test"]}

\* how the future of get_metadata(u) completes: with the returned value
\* (a Profile, or None after a timeout) or with an exception
TaskOutcome(u) ==
    IF u.netloc = "raises.test"
    THEN [kind |-> "raised", text |-> "cannot schedule new futures", value |-> NoneValue]
    ELSE IF u.netloc = "slow.test"
    THEN [kind |-> "returned", text |-> "", value |-> NoneValue]
    ELSE [kind |-> "returned", text |-> "",
          value |-> Profile([Idle EXCEPT !.url = u, !.page = RichPage,
                                         !.response = Response(200, 0 - 1), !.now = 1])]

NoOutcome == [kind |-> "none", text |-> "", value |-> NoneValue]

BulkUrls_InOrder ==
    <<[scheme |-> "https", netloc |-> "raises.test"], PageUrl("https"),
      [scheme |-> "https", netloc |-> "slow.test"]>>

\* every short batch, and one batch of MaxUrls addresses with repetitions
Batches ==
    UNION {[1..n -> BulkUrls] : n \in 0..MaxBatch}
    \cup {[i \in 1..MaxUrls |->
              IF i % 3 = 1 THEN PageUrl("https")
              ELSE IF i % 3 = 2 THEN [scheme |-> "https", netloc |-> "slow.test"]
              ELSE [scheme |-> "https", netloc |-> "raises.test"]]}

RECURSIVE Dedup(_)
Dedup(us) ==
    IF us = <<>> THEN <<>>
    ELSE LET front == Dedup(SubSeq(us, 1, Len(us) - 1))
             last == us[Len(us)]
         IN IF \E i \in 1..Len(front) : front[i] = last THEN front ELSE Append(front, last)

future_to_url_KeyedByUrl(us) == Dedup(us)

\* {executor.submit(get_metadata, url): url for url in urls} (605): one future
\* per element of urls, the i-th future mapped to urls[i]
future_to_url(us) == [i \in 1..Len(us) |-> us[i]]

\* the number of tasks a worker thread is executing
Running(fs) == Cardinality({i \in 1..Len(fs) : fs[i].state = "running"})

BulkResult_SameError(url, outcome) ==
    IF outcome.kind = "returned" /\ TruthyObj(outcome.value) /\ IsDict(outcome.value)
    THEN [seo_score |-> calculate_seo_score(outcome.value)] @@ outcome.value
    ELSE [url |-> url, error |-> "Failed to retrieve metadata", seo_score |-> 0]

\* the body of the as_completed loop (607-624): what is appended to results
BulkResult(url, outcome) ==
    IF outcome.kind = "raised"
    THEN [url |-> url, error |-> outcome.text, seo_score |-> 0]
    ELSE IF TruthyObj(outcome.value) /\ IsDict(outcome.value)
    THEN [seo_score |-> calculate_seo_score(outcome.value)] @@ outcome.value
    ELSE [url |-> url, error |-> "Failed to retrieve metadata", seo_score |-> 0]

\* executor.submit for the next url (605)
Submit ==
    /\ bulk_pc = "running"
    /\ Len(futures) < Len(future_to_url(urls))
    /\ futures' = Append(futures, [url |-> future_to_url(urls)[Len(futures) + 1],
                                   state |-> "pending", outcome |-> NoOutcome, slot |-> 0])
    /\ UNCHANGED <<urls, results, bulk_pc, bulk_rest>>

\* a worker thread takes the oldest queued task
StartTask(i) ==
    /\ bulk_pc = "running"
    /\ futures[i].state = "pending"
    /\ \A j \in 1..(i - 1) : futures[j].state # "pending"
    /\ Running(futures) < max_workers
    /\ futures' = [futures EXCEPT ![i].state = "running"]
    /\ UNCHANGED <<urls, results, bulk_pc, bulk_rest>>

\* get_metadata(url) returns or raises in its worker thread
FinishTask(i) ==
    /\ bulk_pc = "running"
    /\ futures[i].state = "running"
    /\ futures' = [futures EXCEPT ![i].state = "finished",
                                  ![i].outcome = TaskOutcome(futures[i].url)]
    /\ UNCHANGED <<urls, results, bulk_pc, bulk_rest>>

as_completed_FirstSubmitted(fs) == {i \in 1..Len(fs) : fs[i].state = "finished" /\ i = 1}

\* the futures concurrent.futures.as_completed can yield next (606): the ones
\* that are done and have not been yielded yet
as_completed(fs) == {i \in 1..Len(fs) : fs[i].state = "finished"}

\* as_completed yields a finished future and the loop body runs for it (606-624)
Collect(i) ==
    /\ bulk_pc = "running"
    /\ Len(futures) = Len(future_to_url(urls))
    /\ i \in as_completed(futures)
    /\ results' = Append(results, BulkResult(futures[i].url, futures[i].outcome))
    /\ futures' = [futures EXCEPT ![i].state = "collected", ![i].slot = Len(results) + 1]
    /\ UNCHANGED <<urls, bulk_pc, bulk_rest>>

\* as_completed is exhausted, the executor shuts down, results is returned (625)
ReturnResults ==
    /\ bulk_pc = "running"
    /\ Len(futures) = Len(future_to_url(urls))
    /\ \A i \in 1..Len(futures) : futures[i].state = "collected"
    /\ bulk_pc' = "returned"
    /\ UNCHANGED <<urls, futures, results, bulk_rest>>

\* analyze_bulk_urls(urls) has been entered with results = [] (603)
BulkInit ==
    /\ urls \in Batches
    /\ futures = <<>>
    /\ results = <<>>
    /\ bulk_pc = "running"
    /\ GmInit
    /\ FnIdle
    /\ AppIdle

BulkNext ==
    \/ Submit
    \/ \E i \in 1..Len(futures) : StartTask(i)
    \/ \E i \in 1..Len(futures) : FinishTask(i)
    \/ \E i \in 1..Len(futures) : Collect(i)
    \/ ReturnResults

SpecBulk == BulkInit /\ [][BulkNext]_vars

\* the main thread keeps running (submission, the as_completed loop, the
\* return), and so do the worker threads: an idle worker takes a queued task and
\* a started get_metadata call ends, each of its requests having a timeout
\* (56, 182, 198, 209, 227)
MainThread == Submit \/ (\E i \in 1..Len(futures) : Collect(i)) \/ ReturnResults

WorkerThreads == \E i \in 1..Len(futures) : StartTask(i) \/ FinishTask(i)

BulkFairness == WF_vars(MainThread) /\ WF_vars(WorkerThreads)

\* every short batch, and one batch of one URL more than there are workers, so
\* that a task has to wait for a worker
LiveBatches ==
    {us \in Batches : Len(us) <= MaxBatch}
    \cup {[i \in 1..(max_workers + 1) |-> BulkUrls_InOrder[(i % 3) + 1]]}

BulkLiveInit ==
    /\ urls \in LiveBatches
    /\ futures = <<>>
    /\ results = <<>>
    /\ bulk_pc = "running"
    /\ GmInit
    /\ FnIdle
    /\ AppIdle

SpecBulkLive == BulkLiveInit /\ [][BulkNext]_vars /\ BulkFairness

-----------------------------------------------------------------------------
(* The script runs of the page, src/app.py 34-38 and 639-872.  A text typed    *)
(* into a widget is the sequence of its characters.                          *)

MaxHistory == 2

Letters ==
    {"a", "b", "c", "d", "e", "f", "g", "h", "i", "j", "k", "l", "m",
     "n", "o", "p", "q", "r", "s", "t", "u", "v", "w", "x", "y", "z"}

Digits == {"0", "1", "2", "3", "4", "5", "6", "7", "8", "9"}

\* the position of the first element of t that is in chars, Len(t) + 1 if none
RECURSIVE Find(_, _)
Find(t, chars) ==
    IF t = <<>> \/ t[1] \in chars THEN 1 ELSE 1 + Find(Tail(t), chars)

\* urlparse(t): the scheme is what precedes the first ':' when that is a letter
\* followed by letters, digits, '+', '-' or '.'; the netloc is what follows a
\* '//' after it, up to the next '/', '?' or '#'
urlparse(t) ==
    LET colon == Find(t, {":"})
        has_scheme ==
            /\ colon <= Len(t)
            /\ colon > 1
            /\ t[1] \in Letters
            /\ \A k \in 1..(colon - 1) : t[k] \in Letters \cup Digits \cup {"+", "-", "."}
        rest == IF has_scheme THEN SubSeq(t, colon + 1, Len(t)) ELSE t
        has_netloc == Len(rest) >= 2 /\ rest[1] = "/" /\ rest[2] = "/"
        after == SubSeq(rest, 3, Len(rest))
    IN [scheme |-> IF has_scheme THEN SubSeq(t, 1, colon - 1) ELSE <<>>,
        netloc |-> IF has_netloc
                   THEN SubSeq(after, 1, Find(after, {"/", "?", "#"}) - 1)
                   ELSE <<>>]

\* all([parsed_url.scheme, parsed_url.netloc]) (831)
is_valid_url(t) == urlparse(t).scheme # <<>> /\ urlparse(t).netloc # <<>>

\* url.strip() (684), for the blanks a text area line may carry
RECURSIVE strip(_)
strip(t) ==
    IF t = <<>> THEN t
    ELSE IF t[1] = " " THEN strip(Tail(t))
    ELSE IF t[Len(t)] = " " THEN strip(SubSeq(t, 1, Len(t) - 1))
    ELSE t

HttpsUrl == <<"h", "t", "t", "p", "s", ":", "/", "/", "a", ".", "i", "o">>

HttpUrlWithPath == <<"h", "t", "t", "p", ":", "/", "/", "a", ".", "i", "o", "/", "p">>

NoSchemeUrl == <<"a", ".", "i", "o">>

NoHostUrl == <<"h", "t", "t", "p", "s", ":", "/", "/">>

NoSlashesUrl == <<"h", "t", "t", "p", "s", ":", "a", ".", "i", "o">>

SchemeRelativeUrl == <<"/", "/", "a", ".", "i", "o">>

\* what may be typed into a URL field
UrlTexts ==
    {<<>>, HttpsUrl, HttpUrlWithPath, NoSchemeUrl, NoHostUrl, NoSlashesUrl, SchemeRelativeUrl}

\* what may be typed into the two fields of the Compare URLs mode
CompareTexts == {<<>>, HttpsUrl, NoSchemeUrl}

PaddedUrl == <<" ">> \o HttpsUrl \o <<" ">>

\* the lines of the bulk text area: URLs, padded URLs, blank lines, repetitions
BulkTexts ==
    {<<HttpsUrl>>, <<NoSchemeUrl>>, <<<<" ">>>>, <<PaddedUrl, NoSchemeUrl>>,
     <<HttpsUrl, HttpsUrl>>, <<NoHostUrl, <<>>, HttpsUrl>>}

\* the Profile get_metadata(t) returns when the site answers
PageProfile(t) ==
    [Profile([Idle EXCEPT !.page = RichPage, !.response = Response(200, 0 - 1), !.now = 1,
                          !.url = PageUrl(IF urlparse(t).scheme = <<"h", "t", "t", "p", "s">>
                                          THEN "https" ELSE "http")])
        EXCEPT !.url = t]

\* what get_metadata(t) may return: None, or a Profile; requests refuses a URL
\* without scheme or host with a RequestException, which gives None (284-286)
get_metadata_returns(t) ==
    IF is_valid_url(t) THEN {NoneValue, PageProfile(t)} ELSE {NoneValue}

\* the orders in which as_completed may yield the futures of n tasks
Orders(n) == {f \in [1..n -> 1..n] : \A i, j \in 1..n : f[i] = f[j] => i = j}

\* title[:50] (846)
FirstFifty(title) == IF Len(title) <= 50 THEN title ELSE Text(50)

history_entry_Unscored(md) ==
    [URL |-> Get(md, "url", "N/A"),
     SEO_Score |-> 0,
     Title |-> FirstFifty(IF TruthyStr(Get(md, "title", "N/A")) THEN md.title ELSE "N/A"),
     Date |-> "%Y-%m-%d %H:%M:%S"]

\* history_entry (843-848); the Date is the time of the run in the given format
history_entry(md) ==
    [URL |-> Get(md, "url", "N/A"),
     SEO_Score |-> calculate_seo_score(md),
     Title |-> FirstFifty(IF TruthyStr(Get(md, "title", "N/A")) THEN md.title ELSE "N/A"),
     Date |-> "%Y-%m-%d %H:%M:%S"]

\* what a script run records of itself
Run(mode, clear, entered, calls, md, warnings) ==
    [mode |-> mode, cleared |-> clear, history_before |-> analysis_history,
     entered |-> entered, calls |-> calls, metadata |-> md, warnings |-> warnings]

Sidebar_ButtonIgnored(clear) ==
    [analysis_history |-> analysis_history, bulk_results |-> bulk_results]

\* the sidebar of a script run (654-657): the Clear History button
Sidebar(clear) ==
    IF clear
    THEN [analysis_history |-> <<>>, bulk_results |-> <<>>]
    ELSE [analysis_history |-> analysis_history, bulk_results |-> bulk_results]

\* a script run in Single URL mode (660-669, 825-872)
RunSingleUrl(clear, t, analyze_clicked) ==
    /\ Len(analysis_history) < MaxHistory
    /\ t # <<>> \/ analyze_clicked
    /\ bulk_results' = Sidebar(clear).bulk_results
    /\ IF t = <<>>
       THEN /\ analysis_history' = Sidebar(clear).analysis_history
            /\ last_run' = Run("Single URL", clear, <<t>>, <<>>, NoneValue,
                               <<"Please enter a URL to analyze">>)
       ELSE IF ~is_valid_url(t)
       THEN /\ analysis_history' = Sidebar(clear).analysis_history
            /\ last_run' = Run("Single URL", clear, <<t>>, <<>>, NoneValue,
                               <<"Please enter a valid URL starting with http:// or https://">>)
       ELSE \E md \in get_metadata_returns(t) :
               /\ analysis_history' =
                     IF TruthyObj(md) /\ IsDict(md)
                     THEN Append(Sidebar(clear).analysis_history, history_entry(md))
                     ELSE Sidebar(clear).analysis_history
               /\ last_run' = Run("Single URL", clear, <<t>>, <<t>>, md, <<>>)
    /\ UNCHANGED app_rest

\* a script run in Bulk Analysis mode with the button pressed (671-687)
RunBulk(clear, lines) ==
    /\ lines # <<>>
    /\ LET stripped == [i \in 1..Len(lines) |-> strip(lines[i])]
           us == SelectSeq(stripped, LAMBDA t : t # <<>>)
       IN /\ last_run' = Run("Bulk Analysis", clear, us, us, NoneValue, <<>>)
          /\ IF us = <<>>
             THEN bulk_results' = Sidebar(clear).bulk_results
             ELSE \E order \in Orders(Len(us)) :
                  \E mds \in [1..Len(us) -> {NoneValue, PageProfile(HttpsUrl)}] :
                     /\ \A i \in 1..Len(us) :
                           mds[i] = NoneValue \/ (is_valid_url(us[i]) /\ us[i] = HttpsUrl)
                     /\ bulk_results' =
                           [k \in 1..Len(us) |->
                               BulkResult(us[order[k]],
                                          [kind |-> "returned", text |-> "",
                                           value |-> mds[order[k]]])]
    /\ analysis_history' = Sidebar(clear).analysis_history
    /\ UNCHANGED app_rest

\* a script run in Compare URLs mode with the button pressed (726-737)
RunCompare(clear, t1, t2) ==
    /\ t1 # <<>> /\ t2 # <<>>
    /\ last_run' = Run("Compare URLs", clear, <<t1, t2>>, <<t1, t2>>, NoneValue, <<>>)
    /\ analysis_history' = Sidebar(clear).analysis_history
    /\ bulk_results' = Sidebar(clear).bulk_results
    /\ UNCHANGED app_rest

\* a script run in History mode
RunHistory(clear) ==
    /\ last_run' = Run("History", clear, <<>>, <<>>, NoneValue, <<>>)
    /\ analysis_history' = Sidebar(clear).analysis_history
    /\ bulk_results' = Sidebar(clear).bulk_results
    /\ UNCHANGED app_rest

AppInit ==
    /\ AppIdle
    /\ GmInit
    /\ FnIdle
    /\ BulkIdle

AppNext ==
    \/ \E clear \in BOOLEAN, t \in UrlTexts, clicked \in BOOLEAN : RunSingleUrl(clear, t, clicked)
    \/ \E clear \in BOOLEAN, lines \in BulkTexts : RunBulk(clear, lines)
    \/ \E clear \in BOOLEAN, t1, t2 \in CompareTexts : RunCompare(clear, t1, t2)
    \/ \E clear \in BOOLEAN : RunHistory(clear)

SpecApp == AppInit /\ [][AppNext]_vars

-----------------------------------------------------------------------------
(* The arguments the two functions are applied to *)

MaxH1 == 3
MaxH2 == 2
MaxImages == 5
MaxLargeImages == 2
LenMargin == 1
MaxCalls == 2

\* every length within LenMargin of one of the thresholds
Near(thresholds) ==
    UNION {{n \in (t - LenMargin)..(t + LenMargin) : n >= 0} : t \in thresholds}

TitleLengths == Near({0, 20, 30, 60, 70}) \cup {25, 45}
DescriptionLengths == Near({0, 100, 120, 160, 180}) \cup {140}
WordCounts == Near({0, 100, 200, 300}) \cup {400}
LinkCounts == Near({0, 5, 10, 15, 20, 25}) \cup {30}
ImageCounts == {<<total, with_alt>> \in (0..MaxImages) \X (0..MaxImages) : with_alt <= total}
LinkChecks == {<<checked, broken>> \in (0..SampleSize) \X (0..SampleSize) : broken <= checked}
ReadabilityScores == Near({0, 300}) \cup {150, 600}

\* a page that earns every point and triggers no finding
GoodProfile ==
    [url |-> PageUrl("https"),
     title |-> Text(45), title_length |-> 45,
     meta_description |-> Text(140), meta_description_length |-> 140,
     og_tags |-> {"og:title"},
     headings |-> [h1 |-> Headings(1), h2 |-> Headings(1), h3 |-> <<>>],
     images_total |-> MaxImages, images_with_alt |-> MaxImages, images_without_alt |-> 0,
     large_images |-> 0,
     internal_links_count |-> 30, external_links_count |-> 0,
     broken_links |-> 0, checked_links |-> SampleSize,
     has_schema |-> TRUE,
     canonical_url |-> CanonicalHref,
     robots_txt_exists |-> TRUE,
     sitemap_exists |-> TRUE,
     is_mobile_friendly |-> TRUE,
     is_https |-> TRUE,
     readability_score |-> 600,
     text_content |-> 400]

\* the Profiles that differ from b in one group of keys
Variants(b) ==
    {WithTitle(b, t) : t \in {NoneStr} \cup {Text(n) : n \in TitleLengths}}
    \cup {WithDescription(b, Text(n)) : n \in DescriptionLengths}
    \cup {WithH1(b, n) : n \in 0..MaxH1}
    \cup {WithH2(b, n) : n \in 0..MaxH2}
    \cup {WithImages(b, c[1], c[2]) : c \in ImageCounts}
    \cup {[b EXCEPT !.is_mobile_friendly = v] : v \in BOOLEAN}
    \cup {WithHttps(b, v) : v \in BOOLEAN}
    \cup {[b EXCEPT !.has_schema = v] : v \in BOOLEAN}
    \cup {[b EXCEPT !.canonical_url = v] : v \in {NoneStr, "", CanonicalHref}}
    \cup {[b EXCEPT !.internal_links_count = n] : n \in LinkCounts}
    \cup {[b EXCEPT !.text_content = n] : n \in WordCounts}
    \cup {[b EXCEPT !.robots_txt_exists = v] : v \in BOOLEAN}
    \cup {[b EXCEPT !.sitemap_exists = v] : v \in BOOLEAN}
    \cup {WithLinkCheck(b, c[1], c[2]) : c \in LinkChecks}
    \cup {[b EXCEPT !.large_images = n] : n \in 0..MaxLargeImages}
    \cup {[b EXCEPT !.og_tags = v] : v \in {{}, {"og:title"}}}
    \cup {[b EXCEPT !.readability_score = n] : n \in ReadabilityScores}

\* every combination of a poor and a good value of the keys the scorer reads
ScorerCorners ==
    {[WithImages(WithH2(WithH1(WithDescription(WithTitle(GoodProfile, t), d), h1), h2), img[1], img[2])
        EXCEPT !.is_mobile_friendly = mob, !.has_schema = sch, !.canonical_url = can,
               !.internal_links_count = lnk, !.text_content = wrd] :
        t \in {NoneStr, Text(25), Text(45)}, d \in {"", Text(140)},
        h1 \in {0, 1, 2}, h2 \in {0, 1},
        img \in {<<0, 0>>, <<MaxImages, MaxImages>>},
        mob \in BOOLEAN, sch \in BOOLEAN, can \in {NoneStr, CanonicalHref},
        lnk \in {0, 25}, wrd \in {0, 300}}

\* the seven keys behind the Recommended findings, set from one tuple of choices
WithRecommended(p, v) ==
    [p EXCEPT !.has_schema = v[1],
              !.canonical_url = IF v[2] THEN CanonicalHref ELSE NoneStr,
              !.robots_txt_exists = v[3],
              !.sitemap_exists = v[4],
              !.large_images = IF v[5] THEN 0 ELSE 1,
              !.og_tags = IF v[6] THEN {"og:title"} ELSE {},
              !.readability_score = IF v[7] THEN 600 ELSE 150]

AllSeven(v) == <<v, v, v, v, v, v, v>>

\* every combination of the outcomes of the Critical and Important rules, with the
\* Recommended rules all triggered or all quiet
SeriousCorners ==
    {WithRecommended(
        [WithLinkCheck(WithHttps(WithImages(WithH1(WithDescription(WithTitle(GoodProfile, t), d), h1),
                                            MaxImages, alt), https), SampleSize, brk)
            EXCEPT !.is_mobile_friendly = mob, !.text_content = wrd],
        AllSeven(quiet)) :
        t \in {NoneStr, Text(25), Text(45)}, d \in {"", Text(100), Text(140)},
        h1 \in {0, 1, 2}, alt \in {0, MaxImages}, https \in BOOLEAN, brk \in {0, 2},
        mob \in BOOLEAN, wrd \in {0, 300}, quiet \in BOOLEAN}

\* every combination of the outcomes of the Recommended rules, on a page with
\* every serious finding or with none
RecommendedCorners ==
    {WithRecommended(b, v) :
        b \in {EmptyProfile, GoodProfile},
        v \in BOOLEAN \X BOOLEAN \X BOOLEAN \X BOOLEAN \X BOOLEAN \X BOOLEAN \X BOOLEAN}

RecommenderCorners == SeriousCorners \cup RecommendedCorners

NonProfiles == {NoneValue, NotADict, EmptyDict}

ScorerInputs == ScorerCorners \cup Variants(EmptyProfile) \cup Variants(GoodProfile) \cup NonProfiles

\* the Profiles no rule of the recommender fires on, over the keys that only
\* the scorer grades: a description in, just above and well above 120-160, h2
\* headings, images, internal links, and the length of the title and the text
QuietCorners ==
    {[WithImages(WithH2(WithDescription(WithTitle(GoodProfile, Text(t)), Text(d)), h), c[1], c[2])
         EXCEPT !.internal_links_count = l, !.text_content = w] :
        t \in {30, 60}, d \in {140, 161, 181}, h \in {0, 1},
        c \in {<<0, 0>>, <<MaxImages, MaxImages - 1>>, <<MaxImages, MaxImages>>},
        l \in {0, 4, 30}, w \in {300, 400}}

RecommenderInputs ==
    RecommenderCorners \cup QuietCorners
    \cup Variants(EmptyProfile) \cup Variants(GoodProfile) \cup NonProfiles

-----------------------------------------------------------------------------
(* Applying the functions as the Single URL mode does: the score first      *)
(* (841), then the recommendations (872).                                    *)

FnInit(inputs) ==
    /\ metadata \in inputs
    /\ seo_score = 0 - 1
    /\ recommendations = <<>>
    /\ priority = <<>>
    /\ fn_pc = "input"
    /\ rec_calls = 0
    /\ GmInit
    /\ BulkIdle
    /\ AppIdle

\* seo_score = calculate_seo_score(metadata)
CalculateSeoScore ==
    /\ fn_pc = "input"
    /\ seo_score' = calculate_seo_score(metadata)
    /\ fn_pc' = "scored"
    /\ UNCHANGED <<metadata, recommendations, priority, rec_calls, fn_rest>>

\* recommendations, priority = generate_recommendations(metadata, seo_score)
GenerateRecommendations ==
    /\ fn_pc \in {"scored", "recommended"}
    /\ rec_calls < MaxCalls
    /\ recommendations' = generate_recommendations(metadata, seo_score)[1]
    /\ priority' = generate_recommendations(metadata, seo_score)[2]
    /\ metadata' = MetadataAfterRecommendations(metadata)
    /\ rec_calls' = rec_calls + 1
    /\ fn_pc' = "recommended"
    /\ UNCHANGED <<seo_score, fn_rest>>

FnNext == CalculateSeoScore \/ GenerateRecommendations

SpecScorer == FnInit(ScorerInputs) /\ [][FnNext]_vars

SpecRecommender == FnInit(RecommenderInputs) /\ [][FnNext]_vars

-----------------------------------------------------------------------------
(* Properties of calculate_seo_score *)

\* a non-empty dict, as opposed to None, another object or {}
IsProfile(md) == IsDict(md) /\ DOMAIN md # {}

Scored == fn_pc # "input"

\* the invariants of section 3 of the specification that the scorer's keys obey
DataModelInvariants(md) ==
    /\ md.title_length >= 0
    /\ md.meta_description_length >= 0
    /\ md.images_total >= 0
    /\ md.images_with_alt >= 0
    /\ md.images_with_alt <= md.images_total
    /\ md.internal_links_count >= 0
    /\ md.text_content >= 0

\* C1: for every Profile that satisfies the data-model invariants the returned
\* score is an integer in [0,100]; a None or non-dict argument returns 0.  (That
\* two calls on the same Profile agree holds of any function of the argument
\* alone; the range and the value on non-dict arguments are what is checked.)
C1_ScoreInRange ==
    Scored =>
        /\ (IsProfile(metadata) /\ DataModelInvariants(metadata)) => seo_score \in 0..100
        /\ (metadata \in {NoneValue, NotADict}) => seo_score = 0

C1_Witness ==
    /\ fn_pc = "scored"
    /\ IsProfile(metadata)
    /\ metadata.images_total > 0
    /\ seo_score = 100

\* the rubric as the claim C2 words it
C2_T(md) ==
    IF md.title = NoneStr \/ md.title = "" THEN 0
    ELSE IF md.title_length \in 30..60 THEN 15
    ELSE IF md.title_length \in (20..29) \cup (61..70) THEN 10
    ELSE IF md.title_length # 0 THEN 5
    ELSE 0

C2_D(md) ==
    IF md.meta_description_length \in 120..160 THEN 15
    ELSE IF md.meta_description_length \in (100..119) \cup (161..180) THEN 10
    ELSE IF md.meta_description_length # 0 THEN 5
    ELSE 0

C2_H(md) ==
    (IF Len(md.headings.h1) = 1 THEN 15 ELSE IF Len(md.headings.h1) >= 2 THEN 5 ELSE 0)
    + (IF Len(md.headings.h2) >= 1 THEN 5 ELSE 0)

\* floor(10 * images_with_alt / images_total): the largest k with k * total <= 10 * with_alt
C2_I(md) ==
    IF md.images_total = 0 THEN 0
    ELSE CHOOSE k \in 0..10 :
            /\ k * md.images_total <= 10 * md.images_with_alt
            /\ (k + 1) * md.images_total > 10 * md.images_with_alt

C2_W(md) ==
    IF md.text_content >= 300 THEN 10
    ELSE IF md.text_content >= 200 THEN 7
    ELSE IF md.text_content >= 100 THEN 4
    ELSE 0

C2_Sum(md) ==
    C2_T(md) + C2_D(md) + C2_H(md) + C2_I(md)
    + (IF md.is_mobile_friendly THEN 10 ELSE 0)
    + (IF md.has_schema THEN 10 ELSE 0)
    + (IF md.canonical_url \notin {NoneStr, ""} THEN 5 ELSE 0)
    + Min(5, md.internal_links_count \div 5)
    + C2_W(md)

\* C2: for every Profile the score equals min(100, T+D+H+I+M+S+C+L+W), the
\* components being those of the rubric (a canonical_url counts as present when
\* it is a non-empty string).
C2_ScoreIsRubricSum ==
    (Scored /\ IsProfile(metadata)) => seo_score = Min(100, C2_Sum(metadata))

C2_Witness ==
    /\ fn_pc = "scored"
    /\ IsProfile(metadata)
    /\ metadata.meta_description_length = 120
    /\ seo_score = 15

\* the Profiles the claim C6 describes
C6_Perfect(md) ==
    /\ md.title \notin {NoneStr, ""}
    /\ md.title_length \in 30..60
    /\ md.meta_description_length \in 120..160
    /\ Len(md.headings.h1) = 1
    /\ Len(md.headings.h2) >= 1
    /\ md.images_total > 0
    /\ md.images_with_alt = md.images_total
    /\ md.is_mobile_friendly
    /\ md.has_schema
    /\ md.canonical_url \notin {NoneStr, ""}
    /\ md.internal_links_count >= 25
    /\ md.text_content >= 300

\* C6: a Profile with title length 30-60, description length 120-160, one h1,
\* an h2, every image with alt text, mobile friendly, schema, canonical URL,
\* at least 25 internal links and at least 300 words scores exactly 100, and
\* its raw sum before the final clamp is exactly 100 too.
C6_PerfectScores100 ==
    (Scored /\ IsProfile(metadata) /\ C6_Perfect(metadata)) =>
        /\ seo_score = 100
        /\ RawScore(metadata) = 100

C6_Witness ==
    /\ fn_pc = "scored"
    /\ IsProfile(metadata)
    /\ C6_Perfect(metadata)
    /\ metadata.internal_links_count = 25

\* C7: raising images_with_alt, up to images_total, with every other key fixed
\* never lowers the score (checked with images_without_alt left as it was and
\* with it lowered to keep the two counts summing to images_total).
C7_AltMonotone ==
    (Scored /\ IsProfile(metadata)) =>
        \A b \in metadata.images_with_alt..metadata.images_total :
            /\ calculate_seo_score([metadata EXCEPT !.images_with_alt = b]) >= seo_score
            /\ calculate_seo_score(WithImages(metadata, metadata.images_total, b)) >= seo_score

C7_Witness ==
    /\ fn_pc = "scored"
    /\ IsProfile(metadata)
    /\ metadata.images_total = 3
    /\ metadata.images_with_alt = 1
    /\ calculate_seo_score(WithImages(metadata, 3, 2)) > seo_score

-----------------------------------------------------------------------------
(* Properties of generate_recommendations *)

Recommended == fn_pc = "recommended"

\* the rule of section 4.4 of the specification that an issue title belongs to
C3_RuleOf(issue) ==
    CASE issue \in {"Missing Title Tag", "Title Too Short", "Title Too Long"} -> 1
      [] issue \in {"Missing Meta Description", "Meta Description Too Short"} -> 2
      [] issue \in {"No H1 Tag", "Multiple H1 Tags"} -> 3
      [] issue = "Missing Alt Text on Images" -> 4
      [] issue = "Not Mobile-Friendly" -> 5
      [] issue = "Not Using HTTPS" -> 6
      [] issue = "No Schema Markup" -> 7
      [] issue = "No Canonical URL" -> 8
      [] issue = "Low Content Length" -> 9
      [] issue = "No robots.txt File" -> 10
      [] issue = "No Sitemap.xml" -> 11
      [] issue = "Broken Links Detected" -> 12
      [] issue = "Large Images Detected" -> 13
      [] issue = "No Open Graph Tags" -> 14
      [] issue = "Low Readability Score" -> 15
      [] OTHER -> 0

\* the 15 rules as section 4.4 states them: for each rule <<>> when its condition
\* fails, else <<rule, category, impact>>
C3_Rules(md) ==
    << IF md.title \in {NoneStr, ""} THEN <<1, "Critical", "High">>
       ELSE IF md.title_length < 30 \/ md.title_length > 60 THEN <<1, "Important", "Medium">>
       ELSE <<>>,
       IF md.meta_description \in {NoneStr, ""} THEN <<2, "Critical", "High">>
       ELSE IF md.meta_description_length < 120 THEN <<2, "Important", "Medium">>
       ELSE <<>>,
       IF Len(md.headings.h1) = 0 THEN <<3, "Critical", "High">>
       ELSE IF Len(md.headings.h1) > 1 THEN <<3, "Important", "Medium">>
       ELSE <<>>,
       IF md.images_total > 0 /\ 10 * md.images_with_alt < 8 * md.images_total
       THEN <<4, "Important", "Medium">> ELSE <<>>,
       IF ~md.is_mobile_friendly THEN <<5, "Critical", "High">> ELSE <<>>,
       IF ~md.is_https THEN <<6, "Critical", "High">> ELSE <<>>,
       IF ~md.has_schema THEN <<7, "Recommended", "Low">> ELSE <<>>,
       IF md.canonical_url \in {NoneStr, ""} THEN <<8, "Recommended", "Low">> ELSE <<>>,
       IF md.text_content < 300 THEN <<9, "Important", "Medium">> ELSE <<>>,
       IF ~md.robots_txt_exists THEN <<10, "Recommended", "Low">> ELSE <<>>,
       IF ~md.sitemap_exists THEN <<11, "Recommended", "Low">> ELSE <<>>,
       IF md.checked_links > 0 /\ 10 * md.broken_links > md.checked_links
       THEN <<12, "Important", "Medium">> ELSE <<>>,
       IF md.large_images > 0 THEN <<13, "Recommended", "Low">> ELSE <<>>,
       IF md.og_tags = {} THEN <<14, "Recommended", "Low">> ELSE <<>>,
       IF 0 < md.readability_score /\ md.readability_score < 300
       THEN <<15, "Recommended", "Low">> ELSE <<>> >>

C3_Expected(md) == SelectSeq(C3_Rules(md), LAMBDA r : r # <<>>)

C3_Returned ==
    [i \in 1..Len(recommendations) |->
        <<C3_RuleOf(recommendations[i].issue), recommendations[i].category,
          recommendations[i].impact>>]

\* C3: the returned list holds exactly the findings of the 15 rules whose
\* condition holds, in rule order 1..15, each with the category and impact the
\* specification gives its rule, at most one finding per rule; when no
\* condition holds the list is empty.
C3_ExactlyTheRulesThatHold ==
    (Recommended /\ IsProfile(metadata)) =>
        /\ C3_Returned = C3_Expected(metadata)
        /\ \A i, j \in 1..Len(recommendations) :
              i < j => C3_Returned[i][1] < C3_Returned[j][1]

C3_Witness ==
    /\ Recommended
    /\ IsProfile(metadata)
    /\ Len(recommendations) = 3
    /\ recommendations[1].issue = "Title Too Short"
    /\ recommendations[2].issue = "Not Using HTTPS"
    /\ recommendations[3].issue = "Broken Links Detected"

\* the findings of the given categories, in list order
C4_Issues(categories) ==
    LET hits == SelectSeq(recommendations, LAMBDA r : r.category \in categories) IN
    [i \in 1..Len(hits) |-> hits[i].issue]

C4_RecommendedIssues ==
    <<"No Schema Markup", "No Canonical URL", "No robots.txt File", "No Sitemap.xml",
      "No Open Graph Tags">>

\* C4 as claimed: the empty Profile gets exactly 7 Critical or Important findings
\* (covering title, description, h1, mobile, https) plus the Recommended findings
\* for schema, canonical, robots.txt, sitemap and Open Graph.
C4_Original ==
    (Recommended /\ metadata = EmptyProfile) =>
        /\ Len(C4_Issues({"Critical", "Important"})) = 7
        /\ C4_Issues({"Recommended"}) = C4_RecommendedIssues

\* C4 as amended: the empty Profile gets exactly 6 Critical or Important
\* findings, the Critical ones for title, description, h1, mobile and https and
\* the Important "Low Content Length", plus the five Recommended findings for
\* schema, canonical, robots.txt, sitemap and Open Graph: 11 findings in all.
C4_EmptyProfileFindings ==
    (Recommended /\ metadata = EmptyProfile) =>
        /\ C4_Issues({"Critical"}) =
              <<"Missing Title Tag", "Missing Meta Description", "No H1 Tag",
                "Not Mobile-Friendly", "Not Using HTTPS">>
        /\ C4_Issues({"Important"}) = <<"Low Content Length">>
        /\ C4_Issues({"Recommended"}) = C4_RecommendedIssues
        /\ Len(recommendations) = 11

C4_Witness == Recommended /\ metadata = EmptyProfile /\ Len(recommendations) > 0

\* the Profiles of the scenario of C5
C5_Scenario(md) ==
    /\ Len(md.headings.h1) = 2
    /\ md.title \notin {NoneStr, ""}
    /\ md.title_length = 25

C5_Flags(issue, category) ==
    \E i \in 1..Len(recommendations) :
        recommendations[i].issue = issue /\ recommendations[i].category = category

C5_BothFlagged ==
    /\ C5_Flags("Multiple H1 Tags", "Important")
    /\ C5_Flags("Title Too Short", "Important")

\* C5 as claimed: with two h1 and a title of length 25 the headings component is
\* 5 whatever the other keys, the h2 list included, the title component is 10,
\* and "Multiple H1 Tags" and "Title Too Short" are flagged as Important.
C5_Original ==
    (Scored /\ IsProfile(metadata) /\ C5_Scenario(metadata)) =>
        /\ ScoreHeadings(metadata) = 5
        /\ ScoreTitle(metadata) = 10
        /\ Recommended => C5_BothFlagged

\* C5 as amended: with two h1 and a title of length 25 the two h1 earn 5 points,
\* so the headings component is 5 when the page has no h2 and 10 when it has one
\* (never 15 or 20); the title component is 10; "Multiple H1 Tags" and "Title
\* Too Short" are flagged as Important.
C5_TwoH1ShortTitle ==
    (Scored /\ IsProfile(metadata) /\ C5_Scenario(metadata)) =>
        /\ ScoreH1(metadata) = 5
        /\ ScoreHeadings(metadata) = (IF Len(metadata.headings.h2) = 0 THEN 5 ELSE 10)
        /\ ScoreTitle(metadata) = 10
        /\ Recommended => C5_BothFlagged

C5_Witness ==
    /\ Recommended
    /\ IsProfile(metadata)
    /\ C5_Scenario(metadata)
    /\ Len(metadata.headings.h2) = 1
    /\ metadata.is_mobile_friendly

C9_LabelsMatchCategories ==
    /\ Len(priority) = Len(recommendations)
    /\ \A i \in 1..Len(recommendations) :
          /\ priority[i] = recommendations[i].category
          /\ recommendations[i].category \in {"Critical", "Important", "Recommended"}
          /\ recommendations[i].impact \in {"High", "Medium", "Low"}

C9_Witness ==
    /\ Recommended
    /\ Len(recommendations) = 15
    /\ {priority[i] : i \in 1..Len(priority)} = {"Critical", "Important", "Recommended"}

-----------------------------------------------------------------------------
(* C10 *)

\* the primary GET timed out, raised a request error, or came back 4xx/5xx
PrimaryGetFailed ==
    \/ call.response.kind \in {"Timeout", "ConnectionError"}
    \/ call.response.kind = "response" /\ call.response.status >= 400

\* the primary GET came back with a status below 400
PrimaryGetCompleted ==
    /\ net.get = 1
    /\ call.response.kind = "response"
    /\ call.response.status < 400

AuxiliaryProbes == net.image_head + net.robots_get + net.sitemap_head + net.link_head

\* C10: get_metadata returns a Profile only when the primary GET completed
\* successfully; when the primary GET times out, raises a request error or
\* returns a 4xx/5xx status, or when a later step raises unexpectedly, it
\* returns None; and after a failed primary GET no image HEAD, robots.txt GET,
\* sitemap HEAD or link HEAD is issued by that call.
C10_ProfileOnlyAfterSuccessfulGet ==
    /\ IsProfile(call.result) =>
          /\ call.pc = "done"
          /\ PrimaryGetCompleted
          /\ call.handler = "none"
    /\ PrimaryGetFailed =>
          /\ call.pc = "done"
          /\ call.result = NoneValue
          /\ call.handler =
                IF call.response.kind = "Timeout" THEN "Timeout" ELSE "RequestException"
          /\ AuxiliaryProbes = 0
    /\ call.handler = "Exception" =>
          /\ call.pc = "done"
          /\ call.result = NoneValue
    /\ call.pc = "done" => call.result = NoneValue \/ IsProfile(call.result)
    /\ AuxiliaryProbes > 0 => PrimaryGetCompleted

\* a call whose primary GET came back 500 has returned None, the GET being
\* the only request it issued
C10_Witness ==
    /\ call.pc = "done"
    /\ call.response.kind = "response"
    /\ call.response.status = 500
    /\ call.result = NoneValue
    /\ net = [NoRequests EXCEPT !.get = 1]

-----------------------------------------------------------------------------
(* C15 - C20: the auxiliary probes of get_metadata *)

Returned == call.pc = "done" /\ IsProfile(call.result)

ImagesWithSrc == Cardinality({i \in 1..Len(call.page.images) : call.page.images[i].src # ""})

DistinctLinks == Cardinality(ToSet(call.page.links))

\* C15: once the primary GET has succeeded, whatever the image, robots.txt,
\* sitemap and link requests come back with (a status below or from 400, an
\* exception, a timeout), get_metadata returns a Profile unless a statement
\* outside the probes raises, and every probe has been issued by then: one HEAD
\* per image with a src, the robots.txt GET, the sitemap HEAD and one HEAD per
\* sampled link.
C15_ProbesAreBestEffort ==
    /\ (call.pc = "done" /\ PrimaryGetCompleted /\ call.handler # "Exception") => Returned
    /\ Returned =>
          /\ net.image_head = ImagesWithSrc
          /\ net.robots_get = 1
          /\ net.sitemap_head = 1
          /\ net.link_head = Min(SampleSize, DistinctLinks)
    /\ call.pc \in {"sitemap", "links"} => net.image_head = ImagesWithSrc /\ net.robots_get = 1
    /\ call.pc = "links" => net.sitemap_head = 1

\* a Profile was returned although a probe of each kind raised
C15_Witness ==
    /\ Returned
    /\ replies.image_raised >= 1
    /\ replies.robots = "raised"
    /\ replies.sitemap = "raised"
    /\ replies.link_raised >= 1
    /\ replies.link_below_400 >= 1

\* C16 as amended: in a Profile, a robots.txt request that raised leaves
\* robots_txt_exists false and robots_txt_content None, a sitemap request that
\* raised leaves sitemap_exists false, an image request that raised adds
\* nothing to large_images, and a link request that raised adds one to
\* broken_links, so that broken_links = checked_links when every link request
\* raises.
C16_FailedProbeDefaults ==
    Returned =>
       /\ replies.robots = "raised" =>
             ~call.result.robots_txt_exists /\ call.result.robots_txt_content = NoneStr
       /\ replies.sitemap = "raised" => ~call.result.sitemap_exists
       /\ call.result.large_images = replies.image_over_500kb
       /\ call.result.large_images <= net.image_head - replies.image_raised
       /\ call.result.broken_links >= replies.link_raised
       /\ replies.link_raised = net.link_head =>
             call.result.broken_links = call.result.checked_links

\* C16 as stated: the same, but a link request that raised adds nothing to
\* broken_links, so that broken_links = 0 when every link request raises.
C16_Original ==
    Returned =>
       /\ replies.robots = "raised" =>
             ~call.result.robots_txt_exists /\ call.result.robots_txt_content = NoneStr
       /\ replies.sitemap = "raised" => ~call.result.sitemap_exists
       /\ call.result.large_images <= net.image_head - replies.image_raised
       /\ call.result.broken_links = replies.link_from_400
       /\ replies.link_raised = net.link_head => call.result.broken_links = 0

\* a Profile of a page with links, every probe of which raised
C16_Witness ==
    /\ Returned
    /\ replies.robots = "raised"
    /\ replies.sitemap = "raised"
    /\ replies.image_raised = net.image_head
    /\ net.image_head >= 1
    /\ replies.link_raised = net.link_head
    /\ net.link_head >= 2

\* C17: in every Profile broken_links is the number of link HEADs that came
\* back with a status from 400 or raised, one HEAD per sampled link, and
\* 0 <= broken_links <= checked_links.
C17_BrokenLinksCount ==
    Returned =>
       /\ call.result.broken_links = replies.link_from_400 + replies.link_raised
       /\ call.result.checked_links =
             replies.link_below_400 + replies.link_from_400 + replies.link_raised
       /\ call.result.broken_links >= 0
       /\ call.result.broken_links <= call.result.checked_links

\* a Profile whose link HEADs ended in each of the three ways
C17_Witness ==
    /\ Returned
    /\ replies.link_below_400 >= 1
    /\ replies.link_from_400 >= 1
    /\ replies.link_raised >= 1
    /\ call.result.broken_links < call.result.checked_links

\* C18: in every Profile checked_links <= 10 and checked_links <=
\* internal_links_count + external_links_count; one HEAD is issued per sampled
\* link, the sample being at most 10 of the distinct links of the page.
C18_CheckedLinksBounded ==
    Returned =>
       /\ call.result.checked_links <= 10
       /\ call.result.checked_links <=
             call.result.internal_links_count + call.result.external_links_count
       /\ call.result.checked_links = net.link_head
       /\ call.result.checked_links = Min(10, DistinctLinks)

\* a Profile of the page with 11 distinct links, 10 of them probed
C18_Witness ==
    /\ Returned
    /\ call.result.internal_links_count + call.result.external_links_count = 11
    /\ call.result.checked_links = 10

\* C19: in every Profile get_metadata returns, images_with_alt +
\* images_without_alt = images_total with both summands non-negative, and
\* images_with_alt counts the <img> elements whose alt attribute is present
\* and not empty.
C19_ImageCounts ==
    Returned =>
       /\ call.result.images_with_alt + call.result.images_without_alt
             = call.result.images_total
       /\ call.result.images_with_alt >= 0
       /\ call.result.images_without_alt >= 0
       /\ call.result.images_total = Len(call.page.images)
       /\ call.result.images_with_alt =
             Cardinality({i \in 1..Len(call.page.images) :
                             call.page.images[i].alt \notin {NoneStr, ""}})

\* a Profile of a page with an image with alt text and one with an empty alt
C19_Witness ==
    /\ Returned
    /\ call.result.images_total = 2
    /\ call.result.images_with_alt = 1
    /\ \E i \in 1..Len(call.page.images) : call.page.images[i].alt = ""

\* C20: response_time is the time the primary GET took, whatever time the
\* image, robots.txt, sitemap and link requests take.
C20_ResponseTimeIsPrimaryGet ==
    Returned => call.result.response_time = replies.get_took

-----------------------------------------------------------------------------
(* C11 - C13: analyze_bulk_urls *)

BulkReturned == bulk_pc = "returned"

\* the number of elements of the sequence seq that satisfy Test
Count(seq, Test(_)) == Cardinality({i \in 1..Len(seq) : Test(seq[i])})

IsErrorRecord(r) ==
    /\ DOMAIN r = {"url", "error", "seo_score"}
    /\ r.seo_score = 0

\* r is a Profile to which the score of that Profile was added
IsScoredProfile(r) ==
    /\ "error" \notin DOMAIN r
    /\ "seo_score" \in DOMAIN r
    /\ LET profile == [k \in DOMAIN r \ {"seo_score"} |-> r[k]]
       IN /\ IsProfile(profile)
          /\ "title" \in DOMAIN profile
          /\ r.seo_score = calculate_seo_score(profile)

\* C11: analyze_bulk_urls returns one result per input URL: the result list is
\* as long as the input (empty, or with repeated URLs), every URL is the url
\* of as many results as it has occurrences in the input, and each result is
\* either a Profile carrying seo_score = calculate_seo_score(Profile) or an
\* error record {url, error, seo_score: 0}.
C11_OneResultPerUrl ==
    BulkReturned =>
       /\ Len(results) = Len(urls)
       /\ \A u \in BulkUrls :
             Count(results, LAMBDA r : r.url = u) = Count(urls, LAMBDA x : x = u)
       /\ \A k \in 1..Len(results) : IsScoredProfile(results[k]) \/ IsErrorRecord(results[k])

\* a batch with a repeated URL has returned, its results not in input order
C11_Witness ==
    /\ BulkReturned
    /\ Len(urls) >= 3
    /\ \E i, j \in 1..Len(urls) : i # j /\ urls[i] = urls[j]
    /\ \E k \in 1..Len(results) : results[k].url # urls[k]
    /\ \E k \in 1..Len(results) : IsScoredProfile(results[k])

\* C12: the result of each URL of a batch depends on its own task only: when
\* get_metadata returned None it is {url, error: "Failed to retrieve
\* metadata", seo_score: 0}, when the task raised it is an error record with
\* the text of the exception, and otherwise it is the Profile with its score,
\* whatever happens to the other URLs of the batch.
C12_FailuresAreIsolated ==
    \A i \in 1..Len(futures) :
       futures[i].state = "collected" =>
          LET r == results[futures[i].slot]
              outcome == TaskOutcome(urls[i])
          IN /\ r.url = urls[i]
             /\ outcome.kind = "raised" =>
                   r = [url |-> urls[i], error |-> outcome.text, seo_score |-> 0]
             /\ (outcome.kind = "returned" /\ outcome.value = NoneValue) =>
                   r = [url |-> urls[i], error |-> "Failed to retrieve metadata",
                        seo_score |-> 0]
             /\ (outcome.kind = "returned" /\ outcome.value # NoneValue) =>
                   /\ IsScoredProfile(r)
                   /\ \A k \in DOMAIN outcome.value : r[k] = outcome.value[k]

\* a batch in which a fetch timed out and a task raised has returned, with the
\* scored Profile of a third URL
C12_Witness ==
    /\ BulkReturned
    /\ \E k \in 1..Len(results) :
          IsErrorRecord(results[k]) /\ results[k].error = "Failed to retrieve metadata"
    /\ \E k \in 1..Len(results) :
          IsErrorRecord(results[k]) /\ results[k].error # "Failed to retrieve metadata"
    /\ \E k \in 1..Len(results) : IsScoredProfile(results[k]) /\ results[k].seo_score > 0

\* the number of tasks a worker has taken up
Started == Cardinality({i \in 1..Len(futures) : futures[i].state # "pending"})

Finished == Cardinality({i \in 1..Len(futures) : futures[i].state \in {"finished", "collected"}})

\* C13: at most 5 get_metadata tasks of analyze_bulk_urls are executing at any
\* time, for any number of URLs: a sixth or later task has started only when
\* enough of the earlier ones have finished.
C13_AtMostFiveRunning ==
    /\ Running(futures) <= 5
    /\ Started - Finished <= 5
    /\ \A i \in 1..Len(futures) :
          (i > 5 /\ futures[i].state # "pending") => Finished >= i - 5

\* a sixth task runs beside four of the first five, the other one having finished
C13_Witness ==
    /\ Running(futures) = 5
    /\ Finished = 1
    /\ \E i \in 1..Len(futures) : i > 5 /\ futures[i].state = "running"

-----------------------------------------------------------------------------
(* C14: validation of the URLs entered *)

\* C14: in every mode get_metadata is called only with URLs that parse with a
\* non-empty scheme and a non-empty network location, and a script run shows
\* a validation warning when a URL entered does not.
C14_InvalidUrlRejectedInEveryMode ==
    /\ \A i \in 1..Len(last_run.calls) : is_valid_url(last_run.calls[i])
    /\ (\E i \in 1..Len(last_run.entered) : ~is_valid_url(last_run.entered[i]))
          => last_run.warnings # <<>>

-----------------------------------------------------------------------------
(* C21, C29: the history log *)

IsPrefix(a, b) == Len(a) <= Len(b) /\ \A i \in 1..Len(a) : b[i] = a[i]

\* C21 as stated: the history after a script run has the history before it as
\* a prefix, whatever the run was.
C21_Original == IsPrefix(last_run.history_before, analysis_history)

\* C21 as amended: the history after a script run has the history before it as
\* a prefix unless Clear History was pressed in that run; a run with Clear
\* History pressed leaves the history empty, or holding the one entry that the
\* same run appended in Single URL mode.
C21_AppendOnlyUntilCleared ==
    IF last_run.cleared
    THEN /\ Len(analysis_history) <= 1
         /\ Len(analysis_history) = 1 => last_run.mode = "Single URL"
    ELSE IsPrefix(last_run.history_before, analysis_history)

\* Clear History was pressed on a history of MaxHistory entries
C21_Witness ==
    /\ last_run.cleared
    /\ Len(last_run.history_before) = MaxHistory
    /\ analysis_history = <<>>

\* the history a script run starts from once its sidebar has run
AfterSidebar == IF last_run.cleared THEN <<>> ELSE last_run.history_before

\* the run was in Single URL mode, its URL passed validation and get_metadata
\* returned a Profile
AnalysisSucceeded ==
    /\ last_run.mode = "Single URL"
    /\ last_run.calls # <<>>
    /\ is_valid_url(last_run.calls[1])
    /\ IsProfile(last_run.metadata)

\* the history is base with exactly one entry appended, an entry {URL, SEO
\* Score, Title, Date} scored by calculate_seo_score on the Profile of the run
AppendedTo(base) ==
    /\ Len(analysis_history) = Len(base) + 1
    /\ IsPrefix(base, analysis_history)
    /\ LET e == analysis_history[Len(analysis_history)]
       IN /\ DOMAIN e = {"URL", "SEO_Score", "Title", "Date"}
          /\ e.URL = last_run.metadata.url
          /\ e.SEO_Score = calculate_seo_score(last_run.metadata)

\* C29 as stated: a Single URL run whose URL passes validation and whose
\* get_metadata returns a Profile appends exactly one entry {URL, SEO Score,
\* Title, Date} with SEO Score = calculate_seo_score(Profile) to the history
\* it found; every other run leaves the history as it found it.
C29_Original ==
    IF AnalysisSucceeded
    THEN AppendedTo(last_run.history_before)
    ELSE analysis_history = last_run.history_before

\* C29 as amended: the same, the history a run finds being the empty one when
\* Clear History was pressed in that run.
C29_HistoryFrame ==
    IF AnalysisSucceeded
    THEN AppendedTo(AfterSidebar)
    ELSE analysis_history = AfterSidebar

\* a successful Single URL run appended a second entry
C29_Witness ==
    /\ AnalysisSucceeded
    /\ ~last_run.cleared
    /\ Len(last_run.history_before) = 1
    /\ Len(analysis_history) = 2
    /\ analysis_history[2].SEO_Score > 0

-----------------------------------------------------------------------------
(* C22: the rubric's raw sum and the final clamp *)

\* C22 as stated: some Profile satisfying the data-model invariants has a raw
\* rubric sum above 100, so that the final min(score, 100) changes its result
\* (the Profile being scored or any other of the scorer's inputs).
C22_Original ==
    \E p \in {metadata} \cup ScorerInputs :
        IsProfile(p) /\ DataModelInvariants(p) /\ RawScore(p) > 100

\* C22 as amended: for every Profile satisfying the data-model invariants the
\* headings component is at most 20 and the raw rubric sum is at most 100, so
\* the final min(score, 100) returns the raw sum unchanged.
C22_RawSumAtMostHundred ==
    (Scored /\ IsProfile(metadata) /\ DataModelInvariants(metadata)) =>
        /\ ScoreHeadings(metadata) <= 20
        /\ RawScore(metadata) <= 100
        /\ seo_score = RawScore(metadata)

\* a Profile whose headings award 20 and whose every other component is at its
\* maximum: the raw sum is exactly 100
C22_Witness ==
    /\ Scored
    /\ IsProfile(metadata)
    /\ DataModelInvariants(metadata)
    /\ ScoreHeadings(metadata) = 20
    /\ RawScore(metadata) = 100
    /\ seo_score = 100

-----------------------------------------------------------------------------
(* C23: the mapping of the <meta> elements *)

MetaTags == call.page.meta_tags

MetaKeys == {"description", "keywords", "robots"}

ProfileField(k) ==
    CASE k = "description" -> call.result.meta_description
      [] k = "keywords" -> call.result.meta_keywords
      [] k = "robots" -> call.result.robots_meta

\* the content of the last of the elements numbered in S, '' when there is none
LastContent(S) ==
    IF S = {} THEN ""
    ELSE MetaGet(MetaTags[CHOOSE i \in S : \A j \in S : j <= i], "content")

\* the elements whose lower-cased name, or property when the name is missing,
\* is k
Named(k) ==
    {i \in 1..Len(MetaTags) :
        IF MetaTags[i].name # NoneStr
        THEN lower(MetaTags[i].name) = k
        ELSE lower(MetaGet(MetaTags[i], "property")) = k}

\* the elements with a non-empty content whose lower-cased name, or property
\* when the name is missing or empty, is k
NamedWithContent(k) ==
    {i \in 1..Len(MetaTags) :
        /\ MetaGet(MetaTags[i], "content") # ""
        /\ IF MetaGet(MetaTags[i], "name") # ""
           THEN lower(MetaTags[i].name) = k
           ELSE lower(MetaGet(MetaTags[i], "property")) = k}

\* C23 as stated: meta_description, meta_keywords and robots_meta are the
\* content of the last <meta> element in document order whose lower-cased
\* name, or property when the name is missing, is description, keywords or
\* robots.
C23_Original ==
    Returned => \A k \in MetaKeys : ProfileField(k) = LastContent(Named(k))

\* C23 as amended: meta_description, meta_keywords and robots_meta are the
\* content of the last <meta> element in document order that has a non-empty
\* content and whose lower-cased name, or property when the name is missing
\* or empty, is description, keywords or robots; '' when there is none.
C23_LastWithContentWins ==
    Returned => \A k \in MetaKeys : ProfileField(k) = LastContent(NamedWithContent(k))

\* two elements with content for the same key in different cases: the later won
C23_Witness ==
    /\ Returned
    /\ MetaTags = <<Meta("description", NoneStr, "first"), Meta("Description", NoneStr, "second")>>
    /\ call.result.meta_description = "second"

-----------------------------------------------------------------------------
(* C24, C25: the classification and the counting of links *)

PageLinkSet == ToSet(call.page.links)

\* C24: a resolved link is internal iff its network location (host[:port]) is
\* the network location of the requested URL, whatever its scheme, and
\* external otherwise: the two counts of the Profile are the numbers of the
\* distinct links with the page's network location and with any other one.
C24_InternalIffSameNetloc ==
    Returned =>
        /\ call.result.internal_links_count =
              Cardinality({l \in PageLinkSet : l.netloc = call.url.netloc})
        /\ call.result.external_links_count =
              Cardinality({l \in PageLinkSet : l.netloc # call.url.netloc})

\* from a page requested at https://example.com, the http and the https link
\* to example.com are both internal
C24_Witness ==
    /\ Returned
    /\ call.url = PageUrl("https")
    /\ call.page.links = <<Link("http", "example.com", 1), Link("https", "example.com", 1)>>
    /\ call.result.internal_links_count = 2
    /\ call.result.external_links_count = 0

\* C25: the two counts are taken over the set of the resolved links: every
\* distinct link is in exactly one of the two sets counted, however often it
\* is repeated, so the counts add up to the number of distinct links.
C25_CountsOverDistinctLinks ==
    Returned =>
        LET internal == ToSet(internal_links(call.page, call.url))
            external == ToSet(external_links(call.page, call.url))
        IN /\ internal \cap external = {}
           /\ internal \cup external = PageLinkSet
           /\ call.result.internal_links_count = Cardinality(internal)
           /\ call.result.external_links_count = Cardinality(external)
           /\ call.result.internal_links_count + call.result.external_links_count
                 = Cardinality(PageLinkSet)

\* the same link twice on a page: it is counted once
C25_Witness ==
    /\ Returned
    /\ Len(call.page.links) = 2
    /\ Cardinality(PageLinkSet) = 1
    /\ call.result.internal_links_count + call.result.external_links_count = 1

-----------------------------------------------------------------------------
(* C26: analyze_bulk_urls terminates *)

NoTaskLeft ==
    /\ Len(futures) = Len(future_to_url(urls))
    /\ \A i \in 1..Len(futures) : futures[i].state = "collected"
    /\ Len(results) = Len(futures)

\* C26: when every get_metadata task that starts also ends, analyze_bulk_urls
\* eventually returns, and whenever it has returned every submitted task has
\* completed and its result has been collected: none is pending, running or
\* finished but uncollected.
C26_BulkTerminates ==
    /\ <>(bulk_pc = "returned")
    /\ [](bulk_pc = "returned" => NoTaskLeft)

\* a batch of more URLs than workers has returned with every task collected
C26_Witness ==
    /\ bulk_pc = "returned"
    /\ Len(urls) = max_workers + 1
    /\ NoTaskLeft

-----------------------------------------------------------------------------
(* C27, C28: the recommender and the score *)

\* title_length and meta_description_length are the lengths of the texts
LengthsAgree(md) ==
    /\ md.title_length = (IF md.title = NoneStr THEN 0 ELSE Len(md.title))
    /\ md.meta_description_length =
          (IF md.meta_description = NoneStr THEN 0 ELSE Len(md.meta_description))

\* C27: a Profile whose length fields agree with its texts and for which
\* generate_recommendations returns the empty list has a score of at least 70.
C27_NoFindingsMeansGreen ==
    (Recommended /\ IsProfile(metadata) /\ LengthsAgree(metadata) /\ recommendations = <<>>)
        => /\ seo_score >= 70
           /\ calculate_seo_score(metadata) >= 70

\* the lowest score of a Profile without findings: a description of more than
\* 180 characters, no h2, no images and no internal links
C27_Witness ==
    /\ Recommended
    /\ IsProfile(metadata)
    /\ LengthsAgree(metadata)
    /\ recommendations = <<>>
    /\ metadata.meta_description_length > 180
    /\ seo_score = 70

\* the values the seo_score argument is given
ScoreArguments == {0 - 1, 0, 69, 70, 100}

\* C28: the list generate_recommendations returns (and its list of
\* priorities) is the same for every value of the seo_score argument: it is
\* the list returned for the score the call was made with.
C28_IndependentOfScore ==
    Recommended =>
        \A s \in ScoreArguments :
            /\ generate_recommendations(metadata, s)[1] = recommendations
            /\ generate_recommendations(metadata, s)[2] = priority

\* a Profile with findings, scored below 70
C28_Witness ==
    /\ Recommended
    /\ IsProfile(metadata)
    /\ Len(recommendations) >= 2
    /\ seo_score \in 1..69

-----------------------------------------------------------------------------
(* C30: the SEO Factors Breakdown of the Overview tab (910-924) *)

Max(a, b) == IF a >= b THEN a ELSE b

\* 911
title_score(md) ==
    IF TruthyStr(Get(md, "title", NoneStr))
       /\ 30 <= Get(md, "title_length", 0) /\ Get(md, "title_length", 0) <= 60
    THEN 15
    ELSE IF TruthyStr(Get(md, "title", NoneStr)) THEN 10 ELSE 0

\* 912
desc_score(md) ==
    IF 120 <= Get(md, "meta_description_length", 0)
       /\ Get(md, "meta_description_length", 0) <= 160
    THEN 15
    ELSE IF Get(md, "meta_description_length", 0) > 0 THEN 10 ELSE 0

\* 913
headings_score(md) ==
    LET h1 == Get(Get(md, "headings", EmptyDict), "h1", <<>>) IN
    IF Len(h1) = 1 THEN 15 ELSE IF Len(h1) > 0 THEN 5 ELSE 0

\* 914: min(10, int(10 * (images_with_alt / max(images_total, 1))))
images_score(md) ==
    Min(10, (10 * Get(md, "images_with_alt", 0)) \div Max(Get(md, "images_total", 1), 1))

\* 915
mobile_score(md) == IF Get(md, "is_mobile_friendly", FALSE) THEN 10 ELSE 0

\* 916
schema_score(md) == IF Get(md, "has_schema", FALSE) THEN 10 ELSE 0

\* 917
links_score(md) == Min(5, Get(md, "internal_links_count", 0) \div 5)

\* 918
content_score(md) ==
    IF word_count(md) >= 300 THEN 10
    ELSE IF word_count(md) >= 200 THEN 7
    ELSE IF word_count(md) >= 100 THEN 4
    ELSE 0

\* the Score and Max columns of factors_data (920-924), in the order Title,
\* Meta Desc, Headings, Images, Mobile, Schema, Links, Content
factors_data(md) ==
    [Score |-> <<title_score(md), desc_score(md), headings_score(md), images_score(md),
                 mobile_score(md), schema_score(md), links_score(md), content_score(md)>>,
     Max |-> <<15, 15, 15, 10, 10, 10, 5, 10>>]

\* what calculate_seo_score adds for the same eight factors
ScorerComponents(md) ==
    <<ScoreTitle(md), ScoreMetaDescription(md), ScoreHeadings(md), ScoreImages(md),
      ScoreMobile(md), ScoreSchema(md), ScoreInternalLinks(md), ScoreContent(md)>>

\* C30: for every Profile each factor of the breakdown is the component that
\* calculate_seo_score adds for it, and no factor is above its displayed Max.
C30_BreakdownMatchesScorer ==
    (Scored /\ IsProfile(metadata) /\ DataModelInvariants(metadata)) =>
        \A f \in 1..8 :
            /\ factors_data(metadata).Score[f] = ScorerComponents(metadata)[f]
            /\ factors_data(metadata).Score[f] <= factors_data(metadata).Max[f]

=============================================================================
